---------------------------- MODULE Spec2Model ----------------------------
(***************************************************************************)
(* A model of pygodic's numerical pipeline: Eddington's inversion formula  *)
(* by Gauss-Jacobi quadrature and the speed moments of the resulting DF.   *)
(*                                                                         *)
(* Floating-point values are modelled as exact rationals n/d (d > 0, in    *)
(* lowest terms) together with the one special value NaN.  The numerical   *)
(* library the code wraps (scipy) is modelled by what its documented       *)
(* behaviour is for the arguments the wrappers pass.                       *)
(***************************************************************************)
EXTENDS Integers, Sequences, FiniteSets, TLC

(***************************************************************************)
(* Bounds of the model.                                                    *)
(***************************************************************************)
MaxLen == 2        \* longest energy / radius array a caller passes
MaxPts == 4        \* largest n_pts a caller asks an interpolant builder for
MaxQuad == 2       \* largest n_quad a caller passes to antideriv_df
MaxDivmax == 2     \* largest divmax a caller passes to speed_moment
SqrtGrid == 10     \* roots are rounded down to multiples of 1/SqrtGrid

(***************************************************************************)
(* Numbers.                                                                *)
(***************************************************************************)
Abs(i) == IF i < 0 THEN -i ELSE i

RECURSIVE Gcd(_, _)
Gcd(a, b) == IF b = 0 THEN a ELSE Gcd(b, a % b)

NaN == [nan |-> TRUE, n |-> 0, d |-> 1]

\* The rational n/d, d # 0, in lowest terms with a positive denominator.
Rat(n, d) ==
    LET s == IF d < 0 THEN -1 ELSE 1
        g == Gcd(Abs(n), Abs(d))
    IN  [nan |-> FALSE, n |-> (s * n) \div g, d |-> (s * d) \div g]

R(i) == Rat(i, 1)

IsNaN(x) == x.nan

FNeg(x) == IF x.nan THEN NaN ELSE [x EXCEPT !.n = -x.n]

FAdd(x, y) ==
    IF x.nan \/ y.nan THEN NaN
    ELSE LET g == Gcd(x.d, y.d)
         IN  Rat(x.n * (y.d \div g) + y.n * (x.d \div g), (x.d \div g) * y.d)

FSub(x, y) == FAdd(x, FNeg(y))

FMul(x, y) ==
    IF x.nan \/ y.nan THEN NaN
    ELSE LET g1 == Gcd(Abs(x.n), y.d)
             g2 == Gcd(Abs(y.n), x.d)
         IN  Rat((x.n \div g1) * (y.n \div g2), (x.d \div g2) * (y.d \div g1))

\* IEEE division: x/0 is inf or nan; the model has the one non-finite value.
FDiv(x, y) ==
    IF x.nan \/ y.nan \/ y.n = 0 THEN NaN
    ELSE FMul(x, Rat(y.d, y.n))

\* Comparisons with NaN are false, as in IEEE arithmetic.
FLt(x, y) == ~x.nan /\ ~y.nan /\ x.n * y.d < y.n * x.d
FGt(x, y) == FLt(y, x)
FLe(x, y) == ~x.nan /\ ~y.nan /\ x.n * y.d <= y.n * x.d

RECURSIVE FPow(_, _)
FPow(x, e) == IF e = 0 THEN R(1) ELSE FMul(x, FPow(x, e - 1))

RECURSIVE IPow(_, _)
IPow(b, e) == IF e = 0 THEN 1 ELSE b * IPow(b, e - 1)

\* The largest s >= from with s^m <= i.
RECURSIVE IrootFrom(_, _, _)
IrootFrom(i, m, s) == IF IPow(s + 1, m) > i THEN s ELSE IrootFrom(i, m, s + 1)

\* The m-th root of a rational x >= 0: exact when x is the m-th power of a
\* rational; otherwise the roots of its numerator and of its denominator are
\* each rounded down to a multiple of 1/SqrtGrid.
FRoot(x, m) ==
    IF x.nan \/ x.n < 0 THEN NaN
    ELSE IF m = 1 THEN x
    ELSE Rat(IrootFrom(x.n * IPow(SqrtGrid, m), m, 0),
             IrootFrom(x.d * IPow(SqrtGrid, m), m, 0))

\* np.sqrt: NaN for a negative argument.
FSqrt(x) == FRoot(x, 2)

\* np.pi is a binary rational close to pi; the model uses the rational 22/7.
Pi == Rat(22, 7)

\* Storing a float into an integer array truncates toward zero.
Trunc(x) == IF x.n >= 0 THEN R(x.n \div x.d) ELSE R(-((-x.n) \div x.d))

(***************************************************************************)
(* Arrays.  An ndarray is its shape ("0d" for a scalar, "1d"), its element *)
(* type and its elements; a 0-d array has one element.                     *)
(***************************************************************************)
\* A sequence given as a function, as the tuple of its elements.
AsTuple(f) == f \o <<>>

Arr(shape, dtype, v) == [shape |-> shape, dtype |-> dtype, v |-> v]

Scalar(x) == Arr("0d", "float", <<x>>)

Size(a) == Len(a.v)

\* np.zeros_like: the shape and the element type of its argument.
ZerosLike(a) == Arr(a.shape, a.dtype, AsTuple([i \in 1..Size(a) |-> R(0)]))

\* np.flip of a 1-d array.
Flip(a) == [a EXCEPT !.v = AsTuple([i \in 1..Size(a) |-> a.v[Size(a) + 1 - i]])]

\* np.where(cond, x, y) with cond and x arrays of one shape and y a float.
NpWhere(cond, x, y) ==
    Arr(x.shape, "float", AsTuple([i \in 1..Size(x) |-> IF cond[i] THEN x.v[i] ELSE y]))

(***************************************************************************)
(* numalg.interpolate: the wrappers of scipy's splrep and splev.           *)
(*                                                                         *)
(* A B-spline representation (tck) is modelled by the pairs it was fitted  *)
(* to and its order; with no weights given splrep interpolates (s = 0).   *)
(* Its evaluation is abstracted to the piecewise-linear interpolant of     *)
(* those pairs, the derivative being the slope of the piece.               *)
(***************************************************************************)
Tck(t, c, k) == [t |-> t, c |-> c, k |-> k]

NoTck == Tck(<<>>, <<>>, 0)

\* A splrep that also refuses equal abscissas.
SplrepErrorStrict(x, k) ==
    IF k < 1 \/ k > 5 \/ Size(x) <= k THEN "TypeError"
    ELSE IF \E i \in 1..(Size(x) - 1) : FLe(x.v[i + 1], x.v[i]) THEN "ValueError"
    ELSE "none"

\* A splrep that is content with k points.
SplrepErrorLoose(x, k) ==
    IF k < 1 \/ k > 5 \/ Size(x) < k THEN "TypeError"
    ELSE IF \E i \in 1..(Size(x) - 1) : FGt(x.v[i], x.v[i + 1]) THEN "ValueError"
    ELSE "none"

\* splrep refuses an order outside 1..5, fewer than k + 1 points and
\* abscissas that decrease somewhere; equal abscissas are accepted.
SplrepError(x, k) ==
    IF k < 1 \/ k > 5 \/ Size(x) <= k THEN "TypeError"
    ELSE IF \E i \in 1..(Size(x) - 1) : FGt(x.v[i], x.v[i + 1]) THEN "ValueError"
    ELSE "none"

spline_representation(x, y, k) == Tck(x.v, y.v, k)

\* The piece of the spline x lies in; the end pieces extend beyond the range.
Piece(t, x) ==
    LET I == {i \in 1..(Len(t) - 1) : FLe(t[i], x)}
    IN  IF I = {} THEN 1 ELSE CHOOSE i \in I : \A j \in I : j <= i

Outside(x, tck) == FLt(x, tck.t[1]) \/ FGt(x, tck.t[Len(tck.t)])

SplevAtBoundary(x, tck, der) ==
    IF der > 0 THEN R(0)
    ELSE IF FLt(x, tck.t[1]) THEN tck.c[1] ELSE tck.c[Len(tck.c)]

\* splev at one point: ext = 0 extrapolates, 1 returns 0, 3 returns the
\* boundary value (ext = 2 raises, see SplevError).
Slope(tck, i) ==
    FDiv(FSub(tck.c[i + 1], tck.c[i]), FSub(tck.t[i + 1], tck.t[i]))

SplevOnPiece(x, tck, der, i) ==
    IF der = 0 THEN FAdd(tck.c[i], FMul(Slope(tck, i), FSub(x, tck.t[i])))
    ELSE IF der = 1 THEN Slope(tck, i)
    ELSE R(0)

SplevAt(x, tck, der, ext) ==
    IF x.nan THEN NaN
    ELSE IF ext = 1 /\ Outside(x, tck) THEN R(0)
    ELSE IF ext = 3 /\ Outside(x, tck) THEN SplevAtBoundary(x, tck, der)
    ELSE SplevOnPiece(x, tck, der, Piece(tck.t, x))

SplevError(x, tck, der, ext) ==
    IF der < 0 \/ der > tck.k THEN "ValueError"
    ELSE IF ext = 2 /\ \E i \in 1..Size(x) : Outside(x.v[i], tck) THEN "ValueError"
    ELSE "none"

\* spline_evaluation(x, tck, der=0, ext=0): elementwise, a float array of
\* the shape of x.
spline_evaluation(x, tck, der, ext) ==
    Arr(x.shape, "float", AsTuple([i \in 1..Size(x) |-> SplevAt(x.v[i], tck, der, ext)]))

(***************************************************************************)
(* numalg.special.roots_jacobi: the Gauss-Jacobi rule.  The nodes and      *)
(* weights of scipy's rule are irrational; the model uses the midpoint     *)
(* rule for the same weight function (1 - x)^(-1/2), whose n nodes         *)
(* x = 1 - 2 s^2, s = (2i - 1)/(2n), lie inside (-1, 1) in increasing      *)
(* order and whose n equal weights add up to 14/5 (for 2 sqrt 2).          *)
(***************************************************************************)
\* A roots_jacobi that accepts every node count.
RootsJacobiLenient(n) == "none"

RootsJacobiError(n) == IF n < 1 THEN "ValueError" ELSE "none"

roots_jacobi(n, alpha, beta) ==
    [x |-> AsTuple([j \in 1..n |->
               FSub(R(1), FMul(R(2), FPow(Rat(2 * (n + 1 - j) - 1, 2 * n), 2)))]),
     w |-> AsTuple([j \in 1..n |-> Rat(14, 5 * n)]),
     alpha |-> alpha, beta |-> beta]

(***************************************************************************)
(* eddington_inversion.                                                    *)
(***************************************************************************)
NQuadDefault == 10

\* The result of a call: it returned val, or raised exc.
Returned(val) == [status |-> "return", exc |-> "none", val |-> val]
Raised(exc) == [status |-> "raise", exc |-> exc, val |-> Arr("1d", "float", <<>>)]

\* A substitution with the two offsets of x exchanged.
PotentialMirrored(x, energy, energy_min) ==
    Arr(energy.shape, "float",
        AsTuple([i \in 1..Size(energy) |->
            FMul(Rat(1, 2),
                 FSub(FMul(energy.v[i], FSub(x, R(1))),
                      FMul(energy_min, FAdd(x, R(1)))))]))

\* potential(x) of antideriv_df: the potentials the node x maps to.
potential(x, energy, energy_min) ==
    Arr(energy.shape, "float",
        AsTuple([i \in 1..Size(energy) |->
            FMul(Rat(1, 2),
                 FSub(FMul(energy.v[i], FAdd(x, R(1))),
                      FMul(energy_min, FSub(x, R(1)))))]))

\* A g that takes the spline to be 0 outside its fitted range (ext = 1).
GZeroOutside(x, energy, energy_min, drho_dpsi_spline) ==
    spline_evaluation(potential(x, energy, energy_min), drho_dpsi_spline, 0, 1)

\* g(x) of antideriv_df: the spline at the potentials the node x maps to.
g(x, energy, energy_min, drho_dpsi_spline) ==
    spline_evaluation(potential(x, energy, energy_min), drho_dpsi_spline, 0, 0)

\* A loop that stops one node short: range(n_quad - 1).
QuadratureTermsShort(energy, energy_min, drho_dpsi_spline, n_quad, rule) ==
    AsTuple([j \in 1..(n_quad - 1) |->
        LET gj == g(rule.x[j], energy, energy_min, drho_dpsi_spline)
        IN  AsTuple([i \in 1..Size(energy) |-> FMul(rule.w[j], gj.v[i])])])

\* The terms the quadrature loop adds to integral, one per j in range(n_quad).
QuadratureTerms(energy, energy_min, drho_dpsi_spline, n_quad, rule) ==
    AsTuple([j \in 1..n_quad |->
        LET gj == g(rule.x[j], energy, energy_min, drho_dpsi_spline)
        IN  AsTuple([i \in 1..Size(energy) |-> FMul(rule.w[j], gj.v[i])])])

\* integral after the loop has added the first j terms to zeros_like(energy).
RECURSIVE Accumulate(_, _, _)
Accumulate(integral, terms, j) ==
    IF j = 0 THEN integral
    ELSE LET before == Accumulate(integral, terms, j - 1)
         IN  [before EXCEPT !.v = AsTuple([i \in 1..Size(before) |->
                                      FAdd(before.v[i], terms[j][i])])]

\* antideriv_df(energy, energy_min, drho_dpsi_spline, n_quad): the result,
\* the number of calls of roots_jacobi and the number of terms summed.
\* roots_jacobi raises for n_quad < 1, and so does the retry in the except
\* branch.  integral has the element type of energy: adding a float term
\* in place to an integer array raises numpy's casting error.
\* A return value without the factor np.sqrt(energy - energy_min).
Unscaled(energy, energy_min, integral) ==
    Arr(energy.shape, "float",
        AsTuple([i \in 1..Size(energy) |->
            FDiv(FDiv(integral.v[i], R(4)), FPow(Pi, 2))]))

\* The return value: np.sqrt(energy - energy_min) * integral / 4. / np.pi**2.
Scaled(energy, energy_min, integral) ==
    Arr(energy.shape, "float",
        AsTuple([i \in 1..Size(energy) |->
            FDiv(FDiv(FMul(FSqrt(FSub(energy.v[i], energy_min)), integral.v[i]),
                      R(4)),
                 FPow(Pi, 2))]))

\* The loop over the nodes and the return, given the terms of the rule.
SumOfTerms(energy, energy_min, n_quad, rule, terms) ==
    IF energy.dtype = "int"
    THEN [res |-> Raised("UFuncTypeError"), fetches |-> 1, terms |-> 0,
          n_quad |-> n_quad, alpha |-> rule.alpha, beta |-> rule.beta]
    ELSE [res |-> Returned(Scaled(energy, energy_min,
                                  Accumulate(ZerosLike(energy), terms, Len(terms)))),
          fetches |-> 1, terms |-> Len(terms),
          n_quad |-> n_quad, alpha |-> rule.alpha, beta |-> rule.beta]

\* The body of antideriv_df once roots_jacobi has returned the rule.
Quadrature(energy, energy_min, drho_dpsi_spline, n_quad, rule) ==
    SumOfTerms(energy, energy_min, n_quad, rule,
               QuadratureTerms(energy, energy_min, drho_dpsi_spline, n_quad, rule))

\* The values a call of roots_jacobi returns (mu is False): two arrays.
RuleValues(rule) == <<rule.x, rule.w>>

\* Unpacking the returned values into `names` names.
UnpackError(values, names) == IF Len(values) # names THEN "ValueError" ELSE "none"

\* try: roots, weights = special.roots_jacobi(n_quad, -0.5, 0.)
FirstFetchError(n_quad) ==
    IF RootsJacobiError(n_quad) # "none" THEN RootsJacobiError(n_quad)
    ELSE UnpackError(RuleValues(roots_jacobi(n_quad, Rat(-1, 2), R(0))), 2)

\* A retry that succeeds whatever the first fetch raised.
RetryLenient(n_quad) == "none"

\* except: roots, weights, _ = special.roots_jacobi(n_quad, -0.5, 0.)
RetryError(n_quad) ==
    IF RootsJacobiError(n_quad) # "none" THEN RootsJacobiError(n_quad)
    ELSE UnpackError(RuleValues(roots_jacobi(n_quad, Rat(-1, 2), R(0))), 3)

\* The except branch and what follows it; err is the outcome of the retry.
Retried(energy, energy_min, drho_dpsi_spline, n_quad, err) ==
    IF err # "none"
    THEN [res |-> Raised(err), fetches |-> 2, terms |-> 0,
          n_quad |-> n_quad, alpha |-> Rat(-1, 2), beta |-> R(0)]
    ELSE [Quadrature(energy, energy_min, drho_dpsi_spline, n_quad,
                     roots_jacobi(n_quad, Rat(-1, 2), R(0)))
              EXCEPT !.fetches = 2]

antideriv_df(energy, energy_min, drho_dpsi_spline, n_quad) ==
    IF FirstFetchError(n_quad) # "none"
    THEN Retried(energy, energy_min, drho_dpsi_spline, n_quad,
                 RetryError(n_quad))
    ELSE Quadrature(energy, energy_min, drho_dpsi_spline, n_quad,
                    roots_jacobi(n_quad, Rat(-1, 2), R(0)))

\* A df that takes the spline to be 0 outside its fitted range (ext = 1).
DfZeroOutside(energy, energy_min, antideriv_df_spline) ==
    NpWhere(AsTuple([i \in 1..Size(energy) |-> FGt(energy.v[i], energy_min)]),
            spline_evaluation(energy, antideriv_df_spline, 1, 1),
            R(0))

\* A df whose cutoff test is energy >= energy_min.
DfFromCutoff(energy, energy_min, antideriv_df_spline) ==
    NpWhere(AsTuple([i \in 1..Size(energy) |-> FLe(energy_min, energy.v[i])]),
            spline_evaluation(energy, antideriv_df_spline, 1, 0),
            R(0))

\* df(energy, energy_min, antideriv_df_spline).
df(energy, energy_min, antideriv_df_spline) ==
    NpWhere(AsTuple([i \in 1..Size(energy) |-> FGt(energy.v[i], energy_min)]),
            spline_evaluation(energy, antideriv_df_spline, 1, 0),
            R(0))

(***************************************************************************)
(* The radial profiles.  The pipeline takes the model as an argument and   *)
(* uses only the methods SphericallySymmetric declares, so a model is an   *)
(* input here: "hernquist" has a strictly decreasing potential 1/(1 + r),  *)
(* "plateau" has the same profile with a flat potential inside r = 2.      *)
(***************************************************************************)
Models == {"hernquist", "plateau"}

relative_potential(model, r) ==
    IF model = "plateau" /\ FLt(r, R(2)) THEN Rat(1, 3)
    ELSE FDiv(R(1), FAdd(R(1), r))

mass_density(model, r) ==
    FDiv(R(1), FMul(FMul(R(2), Pi), FMul(r, FPow(FAdd(R(1), r), 3))))

drho_dpsi(model, r) ==
    FDiv(FAdd(R(1), FMul(R(4), r)),
         FMul(FMul(R(2), Pi), FMul(FPow(r, 2), FPow(FAdd(R(1), r), 2))))

\* The methods of the model applied to an array of radii.
PotentialOn(model, radius) ==
    Arr(radius.shape, "float",
        AsTuple([i \in 1..Size(radius) |-> relative_potential(model, radius.v[i])]))

DensityOn(model, radius) ==
    Arr(radius.shape, "float",
        AsTuple([i \in 1..Size(radius) |-> mass_density(model, radius.v[i])]))

DrhoDpsiOn(model, radius) ==
    Arr(radius.shape, "float",
        AsTuple([i \in 1..Size(radius) |-> drho_dpsi(model, radius.v[i])]))

(***************************************************************************)
(* numpy's grids.  np.exp is taken to the base 2, that is, the parameter   *)
(* xi is measured in units of ln 2, which keeps the radii rational.        *)
(***************************************************************************)
\* np.linspace(start, stop, num): the end points are exact.
linspace(start, stop, num) ==
    Arr("1d", "float",
        AsTuple([i \in 1..num |->
            IF i = 1 THEN start
            ELSE IF i = num THEN stop
            ELSE FAdd(start, FMul(Rat(i - 1, num - 1), FSub(stop, start)))]))

exp(x) ==
    IF x.nan THEN NaN
    ELSE IF x.n >= 0 THEN FRoot(R(IPow(2, x.n)), x.d)
    ELSE FDiv(R(1), FRoot(R(IPow(2, -x.n)), x.d))

\* np.geomspace(start, stop, num) raises for a zero end point; the end
\* points of the result are exact.
GeomspaceError(start, stop) ==
    IF start.n = 0 \/ stop.n = 0 THEN "ValueError" ELSE "none"

geomspace(start, stop, num) ==
    Arr("1d", "float",
        AsTuple([i \in 1..num |->
            IF i = 1 THEN start
            ELSE IF i = num THEN stop
            ELSE FMul(start, FRoot(FPow(FDiv(stop, start), i - 1), num - 1))]))

(***************************************************************************)
(* interpolants.                                                           *)
(***************************************************************************)
\* density_from_potential(model, xi_min, xi_max, n_pts, k), make_plots
\* False: the result with the three values of the returned tuple.
\* The two fits and the return, given the flipped samples.
FitProfiles(radius, psi, rho, u, k) ==
    IF SplrepError(psi, k) # "none"
    THEN [res |-> Raised(SplrepError(psi, k)), radius |-> radius,
          psi |-> psi, rho_spline |-> NoTck, drho_dpsi_spline |-> NoTck]
    ELSE [res |-> Returned(psi), radius |-> radius, psi |-> psi,
          rho_spline |-> spline_representation(psi, rho, k),
          drho_dpsi_spline |-> spline_representation(psi, u, k)]

\* Samples of which only the potential is flipped.
PotentialFlippedAlone(model, radius, k) ==
    FitProfiles(radius,
                Flip(PotentialOn(model, radius)),
                DensityOn(model, radius),
                DrhoDpsiOn(model, radius),
                k)

\* The samples of the model on the radial grid, each flipped.
FlippedProfiles(model, radius, k) ==
    FitProfiles(radius,
                Flip(PotentialOn(model, radius)),
                Flip(DensityOn(model, radius)),
                Flip(DrhoDpsiOn(model, radius)),
                k)

\* np.exp of an array.
ExpOf(a) == [a EXCEPT !.v = AsTuple([i \in 1..Size(a) |-> exp(a.v[i])])]

density_from_potential(model, xi_min, xi_max, n_pts, k) ==
    FlippedProfiles(model, ExpOf(linspace(xi_min, xi_max, n_pts)), k)

\* antideriv_df_from_energy(model, psi_min, psi_max, drho_dpsi_spline,
\* n_pts, k), make_plots False: the result with the two values of the
\* returned tuple, and the node count of the call of antideriv_df.
\* The fit and the return, given what antideriv_df did on the grid.
FitSamples(energy, samples, k) ==
    IF samples.res.status = "raise" \/ SplrepError(energy, k) # "none"
    THEN [res |-> IF samples.res.status = "raise" THEN samples.res
                  ELSE Raised(SplrepError(energy, k)),
          energy |-> energy, antideriv_df |-> samples.res.val,
          antideriv_df_spline |-> NoTck, n_quad |-> samples.n_quad]
    ELSE [res |-> Returned(energy), energy |-> energy,
          antideriv_df |-> samples.res.val,
          antideriv_df_spline |-> spline_representation(energy, samples.res.val, k),
          n_quad |-> samples.n_quad]

\* A call of antideriv_df on the grid with energy_min = 0.
SamplesOnZeroCutoff(energy, psi_min, drho_dpsi_spline, k) ==
    FitSamples(energy,
               antideriv_df(energy, R(0), drho_dpsi_spline, NQuadDefault), k)

\* A call of antideriv_df on the grid with another node count.
SamplesOnFewNodes(energy, psi_min, drho_dpsi_spline, k) ==
    FitSamples(energy, antideriv_df(energy, psi_min, drho_dpsi_spline, MaxQuad), k)

\* The call of antideriv_df on the grid: n_quad is left to its default.
SamplesOn(energy, psi_min, drho_dpsi_spline, k) ==
    FitSamples(energy,
               antideriv_df(energy, psi_min, drho_dpsi_spline, NQuadDefault), k)

\* n_quad = 0 in the result: geomspace raised and antideriv_df was not called.
antideriv_df_from_energy(model, psi_min, psi_max, drho_dpsi_spline, n_pts, k) ==
    IF GeomspaceError(psi_min, psi_max) # "none"
    THEN [res |-> Raised(GeomspaceError(psi_min, psi_max)),
          energy |-> Arr("1d", "float", <<>>),
          antideriv_df |-> Arr("1d", "float", <<>>),
          antideriv_df_spline |-> NoTck, n_quad |-> 0]
    ELSE SamplesOn(geomspace(psi_min, psi_max, n_pts), psi_min,
                   drho_dpsi_spline, k)

(***************************************************************************)
(* numalg.integrate.romberg and functions_of_phase_space.                  *)
(***************************************************************************)
SpeedMomentDivmaxDefault == 20
RombergDivmaxDefault == 10

\* The tolerance 1.e-12, as mantissa and decimal exponent.
RombergTolDefault == [m |-> 1, e |-> -12]

NoNorm == Arr("none", "float", <<>>)

\* A relative energy that subtracts speed * speed, without the factor 0.5.
RelativeEnergyTwice(radius, speed, model) ==
    FSub(relative_potential(model, radius), FMul(speed, speed))

\* relative_energy(radius, speed, model).
relative_energy(radius, speed, model) ==
    FSub(relative_potential(model, radius), FMul(FMul(Rat(1, 2), speed), speed))

\* integrand(v, r) of speed_moment: df receives the spline speed_moment was
\* given as drho_dpsi_spline.
integrand(v, r, nth, energy_min, drho_dpsi_spline, model) ==
    FMul(FMul(FMul(R(4), Pi), FPow(v, 2 + nth)),
         df(Scalar(relative_energy(r, v, model)), energy_min,
            drho_dpsi_spline).v[1])

\* Upper limits that are 0 where the potential is below energy_min.
VMaxClamped(radius, energy_min, model) ==
    AsTuple([i \in 1..Size(radius) |->
        IF FLt(relative_potential(model, radius.v[i]), energy_min) THEN R(0)
        ELSE FSqrt(FMul(R(2), FSub(relative_potential(model, radius.v[i]),
                                   energy_min)))])

\* The upper limits of the integrals, one per radius.
v_max_of(radius, energy_min, model) ==
    AsTuple([i \in 1..Size(radius) |->
        FSqrt(FMul(R(2), FSub(relative_potential(model, radius.v[i]), energy_min)))])

\* What scipy's romberg has computed after `depth` refinements of [a, b]:
\* the trapezoid estimate before the first one and Simpson's estimate (the
\* first Romberg extrapolation) after it; the finer rows are abstracted to
\* that value.
RombergEstimate(f, a, b, depth) ==
    IF depth = 0
    THEN FMul(FSub(b, a), FMul(Rat(1, 2), FAdd(f[1], f[3])))
    ELSE FMul(FDiv(FSub(b, a), R(6)), FAdd(FAdd(f[1], FMul(R(4), f[2])), f[3]))

\* The estimate of the integral of integrand(., r) over [a, b].
IntegralEstimate(a, b, r, c, depth) ==
    RombergEstimate(
        AsTuple([j \in 1..3 |->
            integrand(<<a, FMul(Rat(1, 2), FAdd(a, b)), b>>[j], r, c.nth,
                      c.energy_min, c.tck, c.model)]),
        a, b, depth)

\* moment[k] = value for an array of the element type of radius.
StoreError(dtype, value) == IF dtype = "int" /\ value.nan THEN "ValueError" ELSE "none"
Store(dtype, value) == IF dtype = "int" THEN Trunc(value) ELSE value

\* A division that demands the shape of moment of norm.
SameShape(moment, norm) == norm.shape = "1d" /\ Size(moment) = Size(norm)

\* moment / norm under numpy's broadcasting of two shapes.
Broadcastable(moment, norm) ==
    norm.shape = "0d" \/ Size(moment) = Size(norm) \/ Size(moment) = 1 \/ Size(norm) = 1

Divide(moment, norm) ==
    LET len == IF norm.shape = "0d" THEN Size(moment)
               ELSE IF Size(moment) = 1 THEN Size(norm)
               ELSE IF Size(norm) = 1 THEN Size(moment)
               ELSE Size(moment)
        at(a, i) == IF Size(a) = 1 THEN a.v[1] ELSE a.v[i]
    IN  Arr("1d", "float", AsTuple([i \in 1..len |-> FDiv(at(moment, i), at(norm, i))]))

\* romberg(function, a, b, args=(r,), divmax=...): the arguments the wrapper
\* hands to scipy; tol and rtol are the wrapper's defaults, divmax is the
\* wrapper's default when the caller omits it.
romberg(a, b, r, has_divmax, divmax) ==
    [a |-> a, b |-> b, r |-> r,
     divmax |-> IF has_divmax THEN divmax ELSE RombergDivmaxDefault,
     tol |-> RombergTolDefault, rtol |-> RombergTolDefault,
     done |-> FALSE, converged |-> FALSE, result |-> NaN]

\* A romberg that raises where scipy's only warns.
RombergExitRaising(conv, estimate) ==
    [value |-> estimate, warning |-> FALSE,
     exc |-> IF conv THEN "none" ELSE "ConvergenceError"]

\* How scipy's romberg ends: it returns its latest estimate, after issuing
\* an AccuracyWarning when the loop ran out of refinements (divmax) without
\* meeting a tolerance; it raises in neither case.
RombergExit(conv, estimate) ==
    [value |-> estimate, warning |-> ~conv, exc |-> "none"]

\* A loop that integrates every radius up to the limit of the first one.
RombergToFirstLimit(c, vmax, k) ==
    romberg(R(0), vmax[1], c.radius.v[k], TRUE,
            IF c.has_divmax THEN c.divmax ELSE SpeedMomentDivmaxDefault)

\* The call of romberg in the loop of speed_moment for radius[k] (k from 1).
RombergOfSpeedMoment(c, vmax, k) ==
    romberg(R(0), vmax[k], c.radius.v[k], TRUE,
            IF c.has_divmax THEN c.divmax ELSE SpeedMomentDivmaxDefault)

(***************************************************************************)
(* models: the methods that take an offset, for Exponential,               *)
(* ExponentialLinear and HenonIsochrone.  Each is given by the branch it   *)
(* evaluates r with ("taylor" below the offset, "closed" otherwise) and    *)
(* the value of that branch; a division by zero yields NaN here, which     *)
(* stands for the non-finite value or the ZeroDivisionError of the code.   *)
(* HenonIsochrone accepts the offset and does not use it.                  *)
(***************************************************************************)
FAbs(x) == IF x.nan THEN NaN ELSE Rat(Abs(x.n), x.d)

OffsetModels == {"Exponential", "ExponentialLinear", "HenonIsochrone"}
OffsetMethods == {"relative_potential", "deriv_relative_potential", "drho_dpsi"}

\* offset=1.e-6 in Exponential and ExponentialLinear, offset=0. in
\* HenonIsochrone.
OffsetDefault(model) == IF model = "HenonIsochrone" THEN R(0) ELSE Rat(1, 1000000)

\* if np.abs(r) < offset: (no such test in HenonIsochrone).
Branch(model, r, offset) ==
    IF model # "HenonIsochrone" /\ FLt(FAbs(r), offset) THEN "taylor" ELSE "closed"

\* 1 - exp(2 r) + 2 r (1 + r)
ExponentialDenominator(r) ==
    FAdd(FSub(R(1), exp(FMul(R(2), r))), FMul(FMul(R(2), r), FAdd(R(1), r)))

\* 7 (1 - exp(2 r)) + 2 r (7 + r (7 + r (4 + r)))
ExponentialLinearDenominator(r) ==
    FAdd(FMul(R(7), FSub(R(1), exp(FMul(R(2), r)))),
         FMul(FMul(R(2), r),
              FAdd(R(7), FMul(r, FAdd(R(7), FMul(r, FAdd(R(4), r)))))))

ExponentialTaylor(method, r) ==
    CASE method = "relative_potential" ->
             FSub(R(1), FDiv(FMul(FMul(R(2), r), r), R(3)))
      [] method = "deriv_relative_potential" ->
             FAdd(FDiv(FMul(R(-4), r), R(3)), FMul(FMul(R(2), r), r))
      [] OTHER ->
             FDiv(FAdd(FMul(Rat(3, 4), FSub(FDiv(R(2), r), R(1))),
                       FMul(FMul(Rat(1, 80), r), FAdd(R(6), r))),
                  Pi)

ExponentialClosed(method, r) ==
    CASE method = "relative_potential" ->
             FDiv(FSub(R(1), FMul(exp(FMul(R(-2), r)), FAdd(R(1), r))), r)
      [] method = "deriv_relative_potential" ->
             FDiv(FMul(exp(FMul(R(-2), r)), ExponentialDenominator(r)), FMul(r, r))
      [] OTHER ->
             FDiv(FDiv(FMul(FMul(R(-2), r), r), ExponentialDenominator(r)), Pi)

ExponentialLinearTaylor(method, r) ==
    CASE method = "relative_potential" ->
             FSub(Rat(9, 14), FDiv(FMul(FMul(R(2), r), r), R(21)))
      [] method = "deriv_relative_potential" ->
             FDiv(FMul(R(-4), r), R(21))
      [] OTHER ->
             FDiv(FMul(Rat(3, 10),
                       FAdd(R(5), FMul(r, FSub(FMul(R(3), r), R(5))))),
                  Pi)

ExponentialLinearClosed(method, r) ==
    CASE method = "relative_potential" ->
             FDiv(FSub(R(1),
                       FDiv(FMul(FMul(exp(FMul(R(-2), r)), FAdd(R(2), r)),
                                 FAdd(FAdd(R(7), FMul(R(6), r)),
                                      FMul(FMul(R(2), r), r))),
                            R(14))),
                  r)
      [] method = "deriv_relative_potential" ->
             FDiv(FMul(ExponentialLinearDenominator(r), exp(FMul(R(-2), r))),
                  FMul(FMul(R(7), r), r))
      [] OTHER ->
             FDiv(FDiv(FMul(FMul(FMul(FMul(R(-2), r), r), r), FAdd(R(1), r)),
                       ExponentialLinearDenominator(r)),
                  Pi)

\* a = np.sqrt(1. + r * r) is the argument a.
HenonIsochroneClosed(method, r, a) ==
    CASE method = "relative_potential" -> FDiv(R(1), FAdd(R(1), a))
      [] method = "deriv_relative_potential" ->
             FDiv(FNeg(r), FMul(a, FPow(FAdd(R(1), a), 2)))
      [] OTHER ->
             FDiv(FAdd(FMul(R(2), FAdd(FSub(R(1), a), FMul(R(4), FPow(r, 4)))),
                       FMul(FMul(r, r), FAdd(R(10), a))),
                  FMul(FMul(FMul(R(4), Pi), FPow(r, 2)), FPow(a, 5)))

\* model.method(r, offset): the branch taken and its value.
OffsetMethod(model, method, r, offset) ==
    [branch |-> Branch(model, r, offset),
     value |->
         CASE model = "Exponential" ->
                  IF Branch(model, r, offset) = "taylor"
                  THEN ExponentialTaylor(method, r)
                  ELSE ExponentialClosed(method, r)
           [] model = "ExponentialLinear" ->
                  IF Branch(model, r, offset) = "taylor"
                  THEN ExponentialLinearTaylor(method, r)
                  ELSE ExponentialLinearClosed(method, r)
           [] OTHER ->
                  HenonIsochroneClosed(method, r, FSqrt(FAdd(R(1), FMul(r, r))))]

(***************************************************************************)
(* The inputs of the calls.                                                *)
(***************************************************************************)
SeqsUpTo(S, n) == UNION {[1..m -> S] : m \in 0..n}

IsInteger(x) == ~x.nan /\ x.d = 1

\* 1-d arrays of floats, and of integers where every element is one, and
\* scalars.
ArraysOver(S, n) ==
    {Arr("1d", "float", v) : v \in SeqsUpTo(S, n)}
    \cup {Arr("1d", "int", v) : v \in SeqsUpTo({x \in S : IsInteger(x)}, n)}

ScalarsOver(S) ==
    {Arr("0d", "float", <<x>>) : x \in S}
    \cup {Arr("0d", "int", <<x>>) : x \in {y \in S : IsInteger(y)}}

EnergyValues == {R(0), R(1), R(2), R(4)}
EnergyArrays == ArraysOver(EnergyValues, MaxLen) \cup ScalarsOver(EnergyValues)
EnergyMins == {R(0), R(1)}

\* Splines a caller holds: u(psi) = 2 psi of order 1, a spline of order 3
\* through psi^2, one with a non-finite coefficient, and the
\* density-derivative spline density_from_potential builds for "hernquist".
SplineLinear == Tck(<<R(0), R(4)>>, <<R(0), R(8)>>, 1)
SplineSquare == Tck(<<R(0), R(1), R(2), R(4)>>, <<R(0), R(1), R(4), R(16)>>, 3)
SplineNaN == Tck(<<R(0), R(4)>>, <<R(1), NaN>>, 1)
SplineHernquist ==
    density_from_potential("hernquist", R(0), R(3), 4, 3).drho_dpsi_spline

InputSplines == {SplineLinear, SplineSquare, SplineHernquist, SplineNaN}
\* The splines speed_moment is called with.
SpeedSplines == {SplineLinear, SplineSquare}
\* The splines on the integers, for the quadrature sums.
QuadratureSplines == {SplineLinear, SplineSquare, SplineNaN}
\* u(psi) = 2 psi fitted on [1, 2] only.
SplineShort == Tck(<<R(1), R(2)>>, <<R(2), R(4)>>, 1)

NQuads == 0..MaxQuad

RadiusValues == {R(1), R(3)}
RadiusArrays == ArraysOver(RadiusValues, MaxLen)
SpeedEnergyMins == {R(0), Rat(1, 2)}
Nths == {0, 1}
Norms ==
    {NoNorm, Scalar(R(2))}
    \cup {Arr("1d", "float", AsTuple([i \in 1..n |-> R(2)])) : n \in 1..MaxLen}
Divmaxes == 0..MaxDivmax

XiValues == {R(0), R(1), R(2), R(3)}
PsiBounds == {R(0), R(1), R(4), R(8)}
\* Node counts a caller of antideriv_df_from_energy may want.
WantNQuads == {MaxQuad, NQuadDefault}
Orders == {1, 3}
\* Every order splrep supports.
DensityOrders == 1..5

(***************************************************************************)
(* The state: the call in progress or last finished (call), its result     *)
(* (out) and what it computed on the way (trace), and the locals of        *)
(* speed_moment while its loop runs.                                       *)
(***************************************************************************)
VARIABLES
    pc,            \* "idle" before the call, "done" after it, and inside
                   \* speed_moment "loop" or "romberg"
    call,          \* the function called and its arguments
    out,           \* how the call ended: returned val, raised exc
    trace,         \* the intermediate values of the call
    v_max,         \* speed_moment: the upper limits
    moment,        \* speed_moment: the moment array
    k,             \* speed_moment: radii done
    depth,         \* romberg: refinements done
    converged,     \* romberg: the error estimate is within tol or rtol
    integrations,  \* speed_moment: the calls of romberg so far
    warnings,      \* AccuracyWarnings issued
    world          \* what outlives a call: the files of the running folder,
                   \* the lines printed, the figures pyplot holds

vars == <<pc, call, out, trace, v_max, moment, k, depth, converged,
          integrations, warnings, world>>

NoResult == [status |-> "none", exc |-> "none", val |-> Arr("1d", "float", <<>>)]
NoTrace == [fn |-> "none"]
NoEffects == [files |-> {}, printed |-> <<>>, figures |-> 0]

(***************************************************************************)
(* plot: each plotter draws on pyplot's current figure (creating it if     *)
(* there is none), saves it under a name made of a stem and model.name,    *)
(* clears it and prints "File ... saved."; density_spline and              *)
(* antideriv_df_from_energy do so twice.                                   *)
(***************************************************************************)
File(stem, model) == [stem |-> stem, model |-> model]

density_spline(model) == <<File("RhoVsPsi", model), File("dRhodPsi", model)>>

makeplot(model) == <<File("FvsE", model), File("DFvsE", model)>>

speed_moment_profile(nth, model) ==
    <<File(IF nth = 0 THEN "0thSpeedMomentVsR" ELSE "1thSpeedMomentVsR", model)>>

Saved(w, saved) ==
    [files |-> w.files \cup {saved[i] : i \in 1..Len(saved)},
     printed |-> w.printed \o saved,
     figures |-> 1]

(***************************************************************************)
(* models: how each class declares has_analytic_df, what the declared      *)
(* function returns, and which of the analytic methods the class defines.  *)
(* The profile "hernquist" stands for a model without analytic DF whose    *)
(* flag is a property.                                                     *)
(***************************************************************************)
RepoModels == {"Exponential", "ExponentialLinear", "HenonIsochrone", "Jaffe", "Plummer"}

Declared(model) ==
    CASE model = "Exponential" -> [as |-> "method", returns |-> FALSE]
      [] model = "ExponentialLinear" -> [as |-> "classmethod", returns |-> FALSE]
      [] model = "HenonIsochrone" -> [as |-> "property", returns |-> TRUE]
      [] model = "Jaffe" -> [as |-> "classmethod", returns |-> TRUE]
      [] model = "Plummer" -> [as |-> "property", returns |-> TRUE]
      [] OTHER -> [as |-> "property", returns |-> FALSE]

Provides(model) ==
    CASE model = "HenonIsochrone" -> {"f", "df"}
      [] model = "Jaffe" -> {"antideriv_df", "df"}
      [] model = "Plummer" -> {"antideriv_df", "df"}
      [] OTHER -> {}

\* The truth value of the expression model.has_analytic_df: a property
\* yields what its function returns, a method that is not called is an
\* object, which is true.
has_analytic_df(model) ==
    IF Declared(model).as = "property" THEN Declared(model).returns ELSE TRUE

\* if model.has_analytic_df: ... model.antideriv_df(energy_dense) ...
\* in the plotter of antideriv_df_from_energy, before the first savefig.
MakeplotError(model) ==
    IF has_analytic_df(model) /\ "antideriv_df" \notin Provides(model)
    THEN "AttributeError" ELSE "none"

\* What antideriv_df_from_energy ends with, given the result of its lines
\* before the plot.
AfterMakeplot(make_plots, model, result) ==
    IF make_plots /\ result.status = "return" /\ MakeplotError(model) # "none"
    THEN Raised(MakeplotError(model))
    ELSE result

\* A branch that plots whatever make_plots says.
PlotAlways(make_plots, result, w, saved) ==
    IF result.status = "return" THEN Saved(w, saved) ELSE w

\* if make_plots: ..., reached only when the lines before it did not raise.
PlotIfAsked(make_plots, result, w, saved) ==
    IF make_plots /\ result.status = "return" THEN Saved(w, saved) ELSE w

\* The plotter of antideriv_df_from_energy has drawn on the figure when the
\* missing method raises; nothing is saved or printed then.
MakeplotIfAsked(make_plots, model, result, w) ==
    IF make_plots /\ result.status = "return" /\ MakeplotError(model) # "none"
    THEN [w EXCEPT !.figures = 1]
    ELSE PlotIfAsked(make_plots, result, w, makeplot(model))

Init ==
    /\ pc = "idle"
    /\ call = [fn |-> "none"]
    /\ out = NoResult
    /\ trace = NoTrace
    /\ v_max = <<>>
    /\ moment = Arr("1d", "float", <<>>)
    /\ k = 0
    /\ depth = 0
    /\ converged = FALSE
    /\ integrations = <<>>
    /\ warnings = 0
    /\ world = NoEffects

\* A call of a function without a loop of its own in the model, which
\* leaves the world w behind.
FinishWith(c, result, t, w) ==
    /\ pc' = "done"
    /\ call' = c
    /\ out' = result
    /\ trace' = t
    /\ v_max' = <<>>
    /\ moment' = Arr("1d", "float", <<>>)
    /\ k' = 0
    /\ depth' = 0
    /\ converged' = FALSE
    /\ integrations' = <<>>
    /\ warnings' = 0
    /\ world' = w

Finish(c, result, t) == FinishWith(c, result, t, world)

CallDf ==
    /\ pc = "idle"
    /\ \E energy \in EnergyArrays, energy_min \in EnergyMins, tck \in InputSplines :
        Finish([fn |-> "df", energy |-> energy, energy_min |-> energy_min,
                tck |-> tck],
               Returned(df(energy, energy_min, tck)),
               NoTrace)

\* n_quad is passed (has_n_quad) or left to its default.
CallAntiderivDf ==
    /\ pc = "idle"
    /\ \E energy \in EnergyArrays, energy_min \in EnergyMins,
          tck \in QuadratureSplines \cup {SplineShort},
          has_n_quad \in BOOLEAN, n_quad \in NQuads :
        /\ has_n_quad \/ n_quad = 0
        /\ LET t == antideriv_df(energy, energy_min, tck,
                                 IF has_n_quad THEN n_quad ELSE NQuadDefault)
           IN  Finish([fn |-> "antideriv_df", energy |-> energy,
                       energy_min |-> energy_min, tck |-> tck,
                       has_n_quad |-> has_n_quad, n_quad |-> n_quad],
                      t.res, t)

\* The grid points the model can represent: linspace stays on the integers.
OnGrid(lo, hi, n_pts) ==
    IF n_pts <= 2 THEN TRUE ELSE (hi.n - lo.n) % (n_pts - 1) = 0

CallDensityFromPotential ==
    /\ pc = "idle"
    /\ \E model \in Models, xi_min \in XiValues, xi_max \in XiValues,
       n_pts \in 0..MaxPts, order \in DensityOrders :
        /\ OnGrid(xi_min, xi_max, n_pts)
        /\ LET t == density_from_potential(model, xi_min, xi_max, n_pts, order)
           IN  Finish([fn |-> "density_from_potential", model |-> model,
                       xi_min |-> xi_min, xi_max |-> xi_max, n_pts |-> n_pts,
                       k |-> order],
                      t.res, t)

\* want_n_quad is the node count the caller would like the samples computed
\* with; antideriv_df_from_energy has no parameter to receive it.
CallAntiderivDfFromEnergy ==
    /\ pc = "idle"
    /\ \E model \in {"hernquist"}, psi_min \in PsiBounds, psi_max \in PsiBounds,
       tck \in QuadratureSplines, n_pts \in 0..MaxPts,
       order \in Orders, want_n_quad \in WantNQuads :
        LET t == antideriv_df_from_energy(model, psi_min, psi_max, tck,
                                          n_pts, order)
        IN  Finish([fn |-> "antideriv_df_from_energy", model |-> model,
                    psi_min |-> psi_min, psi_max |-> psi_max, tck |-> tck,
                    n_pts |-> n_pts, k |-> order,
                    want_n_quad |-> want_n_quad],
                   t.res, t)

SpeedMomentCall ==
    /\ pc = "idle"
    /\ \E radius \in RadiusArrays, nth \in Nths, energy_min \in SpeedEnergyMins,
       tck \in SpeedSplines, model \in {"hernquist"}, norm \in Norms,
       has_divmax \in BOOLEAN, divmax \in Divmaxes :
        /\ has_divmax \/ divmax = 0
        /\ pc' = "loop"
        /\ call' = [fn |-> "speed_moment", radius |-> radius, nth |-> nth,
                    energy_min |-> energy_min, tck |-> tck, model |-> model,
                    norm |-> norm, has_divmax |-> has_divmax,
                    divmax |-> divmax, make_plots |-> FALSE]
        /\ out' = NoResult
        /\ trace' = NoTrace
        /\ v_max' = v_max_of(radius, energy_min, model)
        /\ moment' = ZerosLike(radius)
        /\ k' = 0
        /\ depth' = 0
        /\ converged' = FALSE
        /\ integrations' = <<>>
        /\ warnings' = 0
        /\ world' = world

\* for k, r in enumerate(radius): the call of romberg for the next radius.
RombergCall ==
    /\ pc = "loop"
    /\ k < Size(call.radius)
    /\ pc' = "romberg"
    /\ integrations' = Append(integrations, RombergOfSpeedMoment(call, v_max, k + 1))
    /\ depth' = 0
    /\ converged' = FALSE
    /\ UNCHANGED <<call, out, trace, v_max, moment, k, warnings, world>>

Current == integrations[Len(integrations)]

\* A romberg that refines once more after divmax refinements.
RombergRefineBeyond ==
    /\ pc = "romberg"
    /\ ~converged
    /\ depth <= Current.divmax
    /\ depth' = depth + 1
    /\ converged' \in BOOLEAN
    /\ UNCHANGED <<pc, call, out, trace, v_max, moment, k, integrations, warnings,
                   world>>

\* One refinement.  Whether it brings the error estimate within the
\* tolerances depends on the integrand at a resolution the model does not
\* have, so both outcomes are possible; a NaN estimate never passes the test.
RombergRefine ==
    /\ pc = "romberg"
    /\ ~converged
    /\ depth < Current.divmax
    /\ depth' = depth + 1
    /\ \E c \in BOOLEAN :
        /\ c => ~IsNaN(IntegralEstimate(Current.a, Current.b, Current.r, call,
                                        depth + 1))
        /\ converged' = c
    /\ UNCHANGED <<pc, call, out, trace, v_max, moment, k, integrations, warnings,
                   world>>

\* moment[k] = integrate.romberg(...): the call is recorded as ended, and
\* the assignment raises when the value has no integer to be stored as.
StoreResult(exit) ==
    /\ integrations' = [integrations EXCEPT ![Len(integrations)] =
                            [@ EXCEPT !.done = TRUE, !.converged = converged,
                                      !.result = exit.value]]
    /\ warnings' = IF exit.warning THEN warnings + 1 ELSE warnings
    /\ IF exit.exc # "none" \/ StoreError(moment.dtype, exit.value) # "none"
       THEN /\ pc' = "done"
            /\ out' = Raised(IF exit.exc # "none" THEN exit.exc
                             ELSE StoreError(moment.dtype, exit.value))
            /\ UNCHANGED <<moment, k>>
       ELSE /\ pc' = "loop"
            /\ moment' = [moment EXCEPT !.v[k + 1] = Store(moment.dtype, exit.value)]
            /\ k' = k + 1
            /\ UNCHANGED out

\* romberg returns its latest estimate, with an AccuracyWarning when divmax
\* was exceeded, and speed_moment stores it in moment[k].
RombergReturn ==
    /\ pc = "romberg"
    /\ converged \/ depth >= Current.divmax
    /\ StoreResult(RombergExit(converged,
                   IntegralEstimate(Current.a, Current.b, Current.r, call, depth)))
    /\ UNCHANGED <<call, trace, v_max, depth, converged, world>>

\* After the loop: the division by norm, if given.
Normalised(mom, norm) ==
    IF norm = NoNorm THEN Returned(mom)
    ELSE IF Broadcastable(mom, norm) THEN Returned(Divide(mom, norm))
    ELSE Raised("ValueError")

\* After the loop: the division, the plot if asked for, and the return.
SpeedMomentReturn ==
    /\ pc = "loop"
    /\ k = Size(call.radius)
    /\ pc' = "done"
    /\ out' = Normalised(moment, call.norm)
    /\ world' = PlotIfAsked(call.make_plots, Normalised(moment, call.norm), world,
                            speed_moment_profile(call.nth, call.model))
    /\ UNCHANGED <<call, trace, v_max, moment, k, depth, converged,
                   integrations, warnings>>

Next ==
    \/ CallDf
    \/ CallAntiderivDf
    \/ CallDensityFromPotential
    \/ CallAntiderivDfFromEnergy
    \/ SpeedMomentCall
    \/ RombergCall
    \/ RombergRefine
    \/ RombergReturn
    \/ SpeedMomentReturn

Spec == Init /\ [][Next]_vars

(***************************************************************************)
(* speed_moment alone, run to its end: once called, the interpreter goes   *)
(* on executing the loop and the integrations until the call returns or    *)
(* raises.  While the call is in its loop or in an integration, a step     *)
(* that moves it on (to the next refinement, the next radius or the end of *)
(* the call) is eventually taken.                                          *)
(***************************************************************************)
SpeedMomentNext ==
    \/ SpeedMomentCall
    \/ RombergCall
    \/ RombergRefine
    \/ RombergReturn
    \/ SpeedMomentReturn

Running == pc \in {"loop", "romberg"}

Advance ==
    /\ Running
    /\ pc' \in {"loop", "romberg", "done"}
    /\ k' \in {k, k + 1}
    /\ depth' \in {0, depth, depth + 1}
    /\ <<pc', k', depth'>> # <<pc, k, depth>>

SpeedMomentSpec == Init /\ [][SpeedMomentNext]_vars /\ WF_<<pc, k, depth>>(Advance)

(***************************************************************************)
(* The calls with make_plots passed.  The running folder may hold files    *)
(* and pyplot a figure before the call.                                    *)
(***************************************************************************)
WorldsBefore ==
    {NoEffects,
     [files |-> {File("RhoVsPsi", "hernquist")}, printed |-> <<>>, figures |-> 1]}

PlotInit ==
    /\ pc = "idle"
    /\ call = [fn |-> "none"]
    /\ out = NoResult
    /\ trace = NoTrace
    /\ v_max = <<>>
    /\ moment = Arr("1d", "float", <<>>)
    /\ k = 0
    /\ depth = 0
    /\ converged = FALSE
    /\ integrations = <<>>
    /\ warnings = 0
    /\ world \in WorldsBefore

PlotDensityFromPotential ==
    /\ pc = "idle"
    /\ \E model \in Models, n_pts \in {2, 4}, order \in Orders,
          make_plots \in BOOLEAN :
        LET t == density_from_potential(model, R(0), R(3), n_pts, order)
        IN  FinishWith([fn |-> "density_from_potential", model |-> model,
                        xi_min |-> R(0), xi_max |-> R(3), n_pts |-> n_pts,
                        k |-> order, make_plots |-> make_plots],
                       t.res, t,
                       PlotIfAsked(make_plots, t.res, world, density_spline(model)))

PlotAntiderivDfFromEnergy ==
    /\ pc = "idle"
    /\ \E model \in {"hernquist"} \cup RepoModels, psi_min \in {R(0), R(1)},
          n_pts \in {0, 3}, make_plots \in BOOLEAN :
        LET t == antideriv_df_from_energy(model, psi_min, R(4), SplineLinear,
                                          n_pts, 1)
        IN  FinishWith([fn |-> "antideriv_df_from_energy", model |-> model,
                        psi_min |-> psi_min, psi_max |-> R(4),
                        tck |-> SplineLinear, n_pts |-> n_pts, k |-> 1,
                        make_plots |-> make_plots],
                       AfterMakeplot(make_plots, model, t.res), t,
                       MakeplotIfAsked(make_plots, model, t.res, world))

PlotSpeedMoment ==
    /\ pc = "idle"
    /\ \E radius \in ArraysOver({R(1)}, 1), nth \in Nths, norm \in {NoNorm, Scalar(R(2))},
          divmax \in {0, 1}, make_plots \in BOOLEAN :
        /\ pc' = "loop"
        /\ call' = [fn |-> "speed_moment", radius |-> radius, nth |-> nth,
                    energy_min |-> R(0), tck |-> SplineLinear,
                    model |-> "hernquist", norm |-> norm, has_divmax |-> TRUE,
                    divmax |-> divmax, make_plots |-> make_plots]
        /\ out' = NoResult
        /\ trace' = NoTrace
        /\ v_max' = v_max_of(radius, R(0), "hernquist")
        /\ moment' = ZerosLike(radius)
        /\ k' = 0
        /\ depth' = 0
        /\ converged' = FALSE
        /\ integrations' = <<>>
        /\ warnings' = 0
        /\ world' = world

PlotNext ==
    \/ CallDf
    \/ CallAntiderivDf
    \/ PlotDensityFromPotential
    \/ PlotAntiderivDfFromEnergy
    \/ PlotSpeedMoment
    \/ RombergCall
    \/ RombergRefine
    \/ RombergReturn
    \/ SpeedMomentReturn

PlotSpec == PlotInit /\ [][PlotNext]_vars

(***************************************************************************)
(* The calls of the model methods that take an offset.  A division by zero *)
(* ends as the build makes it end: with ZeroDivisionError, or with a       *)
(* non-finite value and a warning.                                         *)
(***************************************************************************)
ModelRadii == {R(0), Rat(1, 3), Rat(1, 2), R(1), R(2), Rat(-1, 3)}
Offsets == {R(0), Rat(1, 2), R(1)}

CallOffsetMethod ==
    /\ pc = "idle"
    /\ \E model \in OffsetModels, method \in OffsetMethods, r \in ModelRadii,
          has_offset \in BOOLEAN, offset \in Offsets, raises \in BOOLEAN :
        /\ has_offset \/ offset = R(0)
        /\ LET t == OffsetMethod(model, method, r,
                                 IF has_offset THEN offset ELSE OffsetDefault(model))
           IN  /\ raises => IsNaN(t.value)
               /\ Finish([fn |-> "offset_method", model |-> model,
                           method |-> method, r |-> r,
                           has_offset |-> has_offset, offset |-> offset],
                          IF raises THEN Raised("ZeroDivisionError")
                          ELSE Returned(Scalar(t.value)),
                          [fn |-> "offset_method", branch |-> t.branch])

ModelNext == CallOffsetMethod

ModelSpec == Init /\ [][ModelNext]_vars

(***************************************************************************)
(* The calls on objects.  The arrays and splines a caller passes are       *)
(* objects of a heap: a sequence of values in which an object is its       *)
(* index.  A function reads its arguments from the heap, allocates what    *)
(* numpy and scipy return (a new object every time) and writes in place    *)
(* where the code does: integral += ... in antideriv_df and                *)
(* moment[k] = ... in speed_moment.  It ends with the heap it leaves, its  *)
(* result and the objects it returns.                                      *)
(***************************************************************************)
New(h, v) == [heap |-> Append(h, v), id |-> Len(h) + 1]

Ended(h, result, ret) == [heap |-> h, res |-> result, ret |-> ret]

\* return <the object just allocated>.
ReturnNew(n) == Ended(n.heap, Returned(n.heap[n.id]), <<n.id>>)

\* A zeros_like that hands back the array it was given.
ZerosLikeShared(h, id) == [heap |-> h, id |-> id]

\* np.zeros_like(a).
zeros_like(h, id) == New(h, ZerosLike(h[id]))

\* antideriv_df: the loop on the object integral and the return.
QuadratureOnHeap(h, integral, energy, energy_min, tck, n_quad, rule) ==
    IF h[integral].dtype = "int"
    THEN Ended(h, Raised("UFuncTypeError"), <<>>)
    ELSE ReturnNew(
             New([h EXCEPT ![integral] =
                      Accumulate(h[integral],
                                 QuadratureTerms(h[energy], energy_min, h[tck],
                                                 n_quad, rule),
                                 n_quad)],
                 Scaled(h[energy], energy_min,
                        Accumulate(h[integral],
                                   QuadratureTerms(h[energy], energy_min, h[tck],
                                                   n_quad, rule),
                                   n_quad))))

\* antideriv_df after integral = np.zeros_like(energy), which is z.
AfterZerosLike(z, energy, energy_min, tck, n_quad) ==
    IF RootsJacobiError(n_quad) # "none"
    THEN Ended(z.heap, Raised(RootsJacobiError(n_quad)), <<>>)
    ELSE QuadratureOnHeap(z.heap, z.id, energy, energy_min, tck, n_quad,
                          roots_jacobi(n_quad, Rat(-1, 2), R(0)))

AntiderivDfOnHeap(h, energy, energy_min, tck, n_quad) ==
    AfterZerosLike(zeros_like(h, energy), energy, energy_min, tck, n_quad)

\* df: np.where returns a new array.
DfOnHeap(h, energy, energy_min, tck) ==
    ReturnNew(New(h, df(h[energy], energy_min, h[tck])))

\* density_from_potential: the grid, the flipped samples and the two
\* splines are objects made in the call; psi and the splines are returned.
ProfilesOnHeap(h, t) ==
    IF t.res.status = "raise"
    THEN Ended(h \o <<t.radius, t.psi>>, t.res, <<>>)
    ELSE Ended(h \o <<t.radius, t.psi, t.rho_spline, t.drho_dpsi_spline>>,
               t.res, <<Len(h) + 2, Len(h) + 3, Len(h) + 4>>)

DensityFromPotentialOnHeap(h, model, xi_min, xi_max, n_pts, order) ==
    ProfilesOnHeap(h, density_from_potential(model, xi_min, xi_max, n_pts, order))

\* antideriv_df_from_energy after antideriv_df has ended as a on the grid,
\* the object energy: the fit and the return of energy and the spline.
FitOnHeap(a, energy, order) ==
    IF a.res.status = "raise" THEN Ended(a.heap, a.res, <<>>)
    ELSE IF SplrepError(a.heap[energy], order) # "none"
    THEN Ended(a.heap, Raised(SplrepError(a.heap[energy], order)), <<>>)
    ELSE Ended(Append(a.heap,
                      spline_representation(a.heap[energy], a.heap[a.ret[1]],
                                            order)),
               Returned(a.heap[energy]), <<energy, Len(a.heap) + 1>>)

\* antideriv_df_from_energy after energy = np.geomspace(...), which is
\* the object grid.
SamplesOnHeap(grid, psi_min, tck, order) ==
    FitOnHeap(AntiderivDfOnHeap(grid.heap, grid.id, psi_min, tck, NQuadDefault),
              grid.id, order)

AntiderivDfFromEnergyOnHeap(h, psi_min, psi_max, tck, n_pts, order) ==
    IF GeomspaceError(psi_min, psi_max) # "none"
    THEN Ended(h, Raised(GeomspaceError(psi_min, psi_max)), <<>>)
    ELSE SamplesOnHeap(New(h, geomspace(psi_min, psi_max, n_pts)), psi_min, tck,
                       order)

\* The refinements after which the model's estimate no longer changes:
\* none when divmax is 0, one otherwise.
Refinements(c) ==
    IF (IF c.has_divmax THEN c.divmax ELSE SpeedMomentDivmaxDefault) = 0 THEN 0 ELSE 1

\* moment[n] = value on the object s.id; s.exc is the error raised so far.
StoreValue(s, value, n) ==
    IF StoreError(s.heap[s.id].dtype, value) # "none"
    THEN [s EXCEPT !.exc = StoreError(s.heap[s.id].dtype, value)]
    ELSE [s EXCEPT !.heap[s.id].v[n] = Store(s.heap[s.id].dtype, value)]

StoreNext(s, radius, vmax, c, n) ==
    IF s.exc # "none" THEN s
    ELSE StoreValue(s,
                    IntegralEstimate(R(0), vmax[n], s.heap[radius].v[n], c,
                                     Refinements(c)),
                    n)

\* The loop of speed_moment over the first n radii.
RECURSIVE StoreLoop(_, _, _, _, _)
StoreLoop(s, radius, vmax, c, n) ==
    IF n = 0 THEN s
    ELSE StoreNext(StoreLoop(s, radius, vmax, c, n - 1), radius, vmax, c, n)

\* speed_moment after the loop: moment / norm is a new array; without a
\* norm the array made by zeros_like is returned.  norm = 0: None.
AfterStoreLoop(s, norm) ==
    IF s.exc # "none" THEN Ended(s.heap, Raised(s.exc), <<>>)
    ELSE IF norm = 0 THEN Ended(s.heap, Returned(s.heap[s.id]), <<s.id>>)
    ELSE IF Broadcastable(s.heap[s.id], s.heap[norm])
    THEN ReturnNew(New(s.heap, Divide(s.heap[s.id], s.heap[norm])))
    ELSE Ended(s.heap, Raised("ValueError"), <<>>)

\* speed_moment after moment = np.zeros_like(radius), which is z.
LoopOnHeap(z, radius, norm, c) ==
    AfterStoreLoop(
        StoreLoop([heap |-> z.heap, id |-> z.id, exc |-> "none"], radius,
                  v_max_of(z.heap[radius], c.energy_min, c.model), c,
                  Size(z.heap[radius])),
        norm)

SpeedMomentOnHeap(h, radius, norm, c) ==
    LoopOnHeap(zeros_like(h, radius), radius, norm, c)

\* A finished call: the heap before it, the objects passed, the heap after
\* it and the objects returned.
OnHeap(fn, h, args, e) ==
    [fn |-> fn, before |-> h, args |-> args, after |-> e.heap, ret |-> e.ret]

HeapDf ==
    /\ pc = "idle"
    /\ \E energy \in EnergyArrays, energy_min \in EnergyMins, tck \in QuadratureSplines :
        LET e == DfOnHeap(<<energy, tck>>, 1, energy_min, 2)
        IN  Finish([fn |-> "df", energy |-> energy, energy_min |-> energy_min,
                    tck |-> tck],
                   e.res, OnHeap("df", <<energy, tck>>, <<1, 2>>, e))

HeapAntiderivDf ==
    /\ pc = "idle"
    /\ \E energy \in EnergyArrays, energy_min \in EnergyMins,
          tck \in QuadratureSplines, has_n_quad \in BOOLEAN, n_quad \in NQuads :
        /\ has_n_quad \/ n_quad = 0
        /\ LET e == AntiderivDfOnHeap(<<energy, tck>>, 1, energy_min, 2,
                                      IF has_n_quad THEN n_quad ELSE NQuadDefault)
           IN  Finish([fn |-> "antideriv_df", energy |-> energy,
                       energy_min |-> energy_min, tck |-> tck,
                       has_n_quad |-> has_n_quad, n_quad |-> n_quad],
                      e.res, OnHeap("antideriv_df", <<energy, tck>>, <<1, 2>>, e))

\* The caller holds an array of its own, which is not passed.
HeapDensityFromPotential ==
    /\ pc = "idle"
    /\ \E model \in Models, xi_min \in XiValues, xi_max \in XiValues,
       n_pts \in 0..MaxPts, order \in Orders, held \in RadiusArrays :
        /\ OnGrid(xi_min, xi_max, n_pts)
        /\ Size(held) = 1
        /\ LET e == DensityFromPotentialOnHeap(<<held>>, model, xi_min, xi_max,
                                               n_pts, order)
           IN  Finish([fn |-> "density_from_potential", model |-> model,
                       xi_min |-> xi_min, xi_max |-> xi_max, n_pts |-> n_pts,
                       k |-> order],
                      e.res, OnHeap("density_from_potential", <<held>>, <<>>, e))

HeapAntiderivDfFromEnergy ==
    /\ pc = "idle"
    /\ \E psi_min \in PsiBounds, psi_max \in PsiBounds,
       tck \in QuadratureSplines, n_pts \in 0..MaxPts, order \in Orders :
        LET e == AntiderivDfFromEnergyOnHeap(<<tck>>, psi_min, psi_max, 1,
                                             n_pts, order)
        IN  Finish([fn |-> "antideriv_df_from_energy", model |-> "hernquist",
                    psi_min |-> psi_min, psi_max |-> psi_max, tck |-> tck,
                    n_pts |-> n_pts, k |-> order],
                   e.res, OnHeap("antideriv_df_from_energy", <<tck>>, <<1>>, e))

\* The objects passed are radius, the spline and, when given, norm.
HeapSpeedMoment ==
    /\ pc = "idle"
    /\ \E radius \in RadiusArrays, nth \in Nths, energy_min \in SpeedEnergyMins,
       tck \in SpeedSplines, norm \in Norms, divmax \in Divmaxes :
        LET c == [fn |-> "speed_moment", radius |-> radius, nth |-> nth,
                  energy_min |-> energy_min, tck |-> tck, model |-> "hernquist",
                  norm |-> norm, has_divmax |-> TRUE, divmax |-> divmax,
                  make_plots |-> FALSE]
            h == IF norm = NoNorm THEN <<radius, tck>> ELSE <<radius, tck, norm>>
        IN  Finish(c, SpeedMomentOnHeap(h, 1, IF norm = NoNorm THEN 0 ELSE 3, c).res,
                   OnHeap("speed_moment", h,
                          IF norm = NoNorm THEN <<1, 2>> ELSE <<1, 2, 3>>,
                          SpeedMomentOnHeap(h, 1, IF norm = NoNorm THEN 0 ELSE 3, c)))

HeapNext ==
    \/ HeapDf
    \/ HeapAntiderivDf
    \/ HeapDensityFromPotential
    \/ HeapAntiderivDfFromEnergy
    \/ HeapSpeedMoment

HeapSpec == Init /\ [][HeapNext]_vars


(***************************************************************************)
(* The properties.                                                         *)
(***************************************************************************)
Done(fn) == pc = "done" /\ call.fn = fn
ReturnedFrom(fn) == Done(fn) /\ out.status = "return"

\* C1: df(E, E_min, S) returns one entry per input energy: 0 where
\* E[i] <= E_min and the first derivative of S at E[i] where E[i] > E_min.
C1_DfElementwise ==
    Done("df") =>
        /\ out.status = "return"
        /\ Size(out.val) = Size(call.energy)
        /\ \A i \in 1..Size(call.energy) :
            out.val.v[i] = IF FLe(call.energy.v[i], call.energy_min) THEN R(0)
                           ELSE SplevAt(call.energy.v[i], call.tck, 1, 0)

\* df returned for an energy at the cutoff and one above it.
C1_Witness ==
    /\ ReturnedFrom("df")
    /\ Size(call.energy) = 2
    /\ call.energy.v[1] = call.energy_min
    /\ FGt(call.energy.v[2], call.energy_min)
    /\ out.val.v[1] = R(0)
    /\ out.val.v[2] = R(2)

\* C2, as the specification states it: speed_moment without a norm returns
\* an array aligned with radius whose k-th entry is the integral from 0 to
\* v_max(r_k) that the k-th integration returned, with one integration per
\* radius, each with the caller's maximum depth (20 when omitted) and the
\* tolerances 1e-12.
C2_MomentIsIntegral ==
    (ReturnedFrom("speed_moment") /\ call.norm = NoNorm) =>
        /\ Size(out.val) = Size(call.radius)
        /\ Len(integrations) = Size(call.radius)
        /\ \A i \in 1..Len(integrations) :
            /\ integrations[i].a = R(0)
            /\ integrations[i].b =
                   FSqrt(FMul(R(2), FSub(relative_potential(call.model, call.radius.v[i]),
                                         call.energy_min)))
            /\ integrations[i].r = call.radius.v[i]
            /\ integrations[i].divmax =
                   IF call.has_divmax THEN call.divmax ELSE SpeedMomentDivmaxDefault
            /\ integrations[i].tol = [m |-> 1, e |-> -12]
            /\ integrations[i].rtol = [m |-> 1, e |-> -12]
            /\ out.val.v[i] = integrations[i].result

\* The antiderivative-of-DF splines antideriv_df_from_energy builds from the
\* density-derivative spline u.
DFSplinesOf(u) ==
    {antideriv_df_from_energy(m, lo, hi, u, n, kk).antideriv_df_spline :
        m \in Models, lo \in PsiBounds, hi \in PsiBounds, n \in 0..MaxPts,
        kk \in Orders} \ {NoTck}

\* C3, as the specification states it: the f that speed_moment integrates
\* is the DF, the first derivative of the antiderivative-of-DF spline built
\* from the density-derivative spline speed_moment is given; here at the
\* midpoint of the range of integration.
C3_IntegrandIsDF ==
    (pc = "romberg" /\ call.tck = SplineLinear /\ ~IsNaN(Current.b)) =>
        \E F \in DFSplinesOf(call.tck) :
            LET E == Scalar(relative_energy(
                         Current.r, FMul(Rat(1, 2), FAdd(Current.a, Current.b)),
                         call.model))
            IN  df(E, call.energy_min, call.tck) = df(E, call.energy_min, F)

\* The sum over the first j nodes of w_j * S(psi(x_j)), with
\* psi(x) = (E * (x + 1) - E_min * (x - 1)) / 2.
RECURSIVE WeightedSum(_, _, _, _, _)
WeightedSum(E, E_min, S, rule, j) ==
    IF j = 0 THEN R(0)
    ELSE FAdd(WeightedSum(E, E_min, S, rule, j - 1),
              FMul(rule.w[j],
                   SplevAt(FDiv(FSub(FMul(E, FAdd(rule.x[j], R(1))),
                                     FMul(E_min, FSub(rule.x[j], R(1)))),
                                R(2)),
                           S, 0, 0)))

\* C4: when antideriv_df(E, E_min, S, n) returns, it has fetched the nodes
\* and weights once, for n nodes (10 when n is omitted) and the exponents
\* alpha = -1/2, beta = 0, has summed exactly n terms, and its value for
\* each E_i is sqrt(E_i - E_min) / (4 pi^2) * sum_j w_j * S(psi_i(x_j)).
C4_QuadratureFormula ==
    ReturnedFrom("antideriv_df") =>
        LET n == IF call.has_n_quad THEN call.n_quad ELSE NQuadDefault
            rule == roots_jacobi(n, Rat(-1, 2), R(0))
        IN  /\ trace.fetches = 1
            /\ trace.n_quad = n
            /\ trace.alpha = Rat(-1, 2)
            /\ trace.beta = R(0)
            /\ trace.terms = n
            /\ Size(out.val) = Size(call.energy)
            /\ \A i \in 1..Size(call.energy) :
                out.val.v[i] =
                    FMul(FDiv(FSqrt(FSub(call.energy.v[i], call.energy_min)),
                              FMul(R(4), FPow(Pi, 2))),
                         WeightedSum(call.energy.v[i], call.energy_min, call.tck,
                                     rule, n))

\* antideriv_df returned a finite non-zero value computed with the default
\* node count.
C4_Witness ==
    /\ ReturnedFrom("antideriv_df")
    /\ ~call.has_n_quad
    /\ trace.terms = NQuadDefault
    /\ Size(call.energy) = 2
    /\ ~IsNaN(out.val.v[2])
    /\ out.val.v[2] # R(0)

HasFiniteValues(tck) == \A i \in 1..Len(tck.c) : ~IsNaN(tck.c[i])

\* C5: for a spline with finite values (and n >= 1, without which
\* antideriv_df does not return), antideriv_df returns exactly 0 at every
\* input energy equal to E_min.
C5_ZeroAtCutoff ==
    (ReturnedFrom("antideriv_df") /\ HasFiniteValues(call.tck)) =>
        \A i \in 1..Size(call.energy) :
            call.energy.v[i] = call.energy_min => out.val.v[i] = R(0)

\* antideriv_df returned 0 at the cutoff next to a non-zero value above it.
C5_Witness ==
    /\ ReturnedFrom("antideriv_df")
    /\ HasFiniteValues(call.tck)
    /\ Size(call.energy) = 2
    /\ call.energy.v[1] = call.energy_min
    /\ out.val.v[1] = R(0)
    /\ ~IsNaN(out.val.v[2])
    /\ out.val.v[2] # R(0)


\* C6: antideriv_df_from_energy(model, psi_min, psi_max, S, N, k) with
\* 0 < psi_min < psi_max returns a grid of exactly N strictly increasing
\* energies from psi_min to psi_max and a spline of order k fitted to the
\* pairs (energy_i, F_i) in grid order, F_i being antideriv_df at energy_i
\* with E_min = psi_min and the spline S.
C6_GridAndFit ==
    (/\ ReturnedFrom("antideriv_df_from_energy")
     /\ FLt(R(0), call.psi_min)
     /\ FLt(call.psi_min, call.psi_max)) =>
        LET N == call.n_pts
            F == trace.antideriv_df_spline
        IN  /\ Size(out.val) = N
            /\ out.val.v[1] = call.psi_min
            /\ out.val.v[N] = call.psi_max
            /\ \A i \in 1..(N - 1) : FLt(out.val.v[i], out.val.v[i + 1])
            /\ F.k = call.k
            /\ Len(F.t) = N
            /\ Len(F.c) = N
            /\ \A i \in 1..N :
                /\ F.t[i] = out.val.v[i]
                /\ F.c[i] = antideriv_df(Arr("1d", "float", <<out.val.v[i]>>),
                                         call.psi_min, call.tck,
                                         trace.n_quad).res.val.v[1]

\* antideriv_df_from_energy returned a grid with an interior point and a
\* spline with a non-zero sample.
C6_Witness ==
    /\ ReturnedFrom("antideriv_df_from_energy")
    /\ FLt(R(0), call.psi_min)
    /\ FLt(call.psi_min, call.psi_max)
    /\ call.n_pts = 3
    /\ call.k = 1
    /\ ~IsNaN(trace.antideriv_df_spline.c[3])
    /\ trace.antideriv_df_spline.c[3] # R(0)

\* C7, as the specification states it: a caller of antideriv_df_from_energy
\* chooses the node count its samples are computed with.
C7_NodeCountChosen ==
    (Done("antideriv_df_from_energy") /\ trace.n_quad # 0) =>
        trace.n_quad = call.want_n_quad

\* C7, amended: the caller chooses the sample count N, and the samples are
\* computed with 10 nodes whatever node count the caller wants and whatever
\* N is.
C7_NodeCountFixed ==
    Done("antideriv_df_from_energy") =>
        /\ trace.n_quad # 0 => trace.n_quad = NQuadDefault
        /\ out.status = "return" => Size(out.val) = call.n_pts

\* antideriv_df_from_energy returned N = 2 samples computed with 10 nodes to
\* a caller who wanted another node count.
C7_Witness ==
    /\ ReturnedFrom("antideriv_df_from_energy")
    /\ call.want_n_quad # NQuadDefault
    /\ call.n_pts = 2
    /\ Size(out.val) = 2
    /\ trace.n_quad = NQuadDefault

\* C8: for a model whose potential strictly decreases with r ("hernquist")
\* and xi_min < xi_max, density_from_potential samples the profile on
\* r_j = exp(linspace(xi_min, xi_max, N)), reverses the three sample arrays
\* together, so that psi(r_j) stays paired with rho(r_j) and u(r_j), and
\* returns the potentials in strictly increasing order with splines of
\* order k for rho(psi) and u(psi) on those abscissas.
C8_ReversedTogether ==
    (/\ ReturnedFrom("density_from_potential")
     /\ call.model = "hernquist"
     /\ FLt(call.xi_min, call.xi_max)) =>
        LET N == call.n_pts
            r == trace.radius.v
            lin == linspace(call.xi_min, call.xi_max, call.n_pts)
        IN  /\ Len(r) = N
            /\ \A j \in 1..N : r[j] = exp(lin.v[j])
            /\ Size(out.val) = N
            /\ \A i \in 1..(N - 1) : FLt(out.val.v[i], out.val.v[i + 1])
            /\ trace.rho_spline.k = call.k
            /\ trace.drho_dpsi_spline.k = call.k
            /\ trace.rho_spline.t = out.val.v
            /\ trace.drho_dpsi_spline.t = out.val.v
            /\ Len(trace.rho_spline.c) = N
            /\ Len(trace.drho_dpsi_spline.c) = N
            /\ \A i \in 1..N :
                /\ out.val.v[i] = relative_potential(call.model, r[N + 1 - i])
                /\ trace.rho_spline.c[i] = mass_density(call.model, r[N + 1 - i])
                /\ trace.drho_dpsi_spline.c[i] = drho_dpsi(call.model, r[N + 1 - i])

\* density_from_potential returned for four radii of "hernquist".
C8_Witness ==
    /\ ReturnedFrom("density_from_potential")
    /\ call.model = "hernquist"
    /\ FLt(call.xi_min, call.xi_max)
    /\ call.n_pts = 4
    /\ call.k = 3
    /\ FLt(out.val.v[1], out.val.v[4])
    /\ FGt(trace.radius.v[4], trace.radius.v[1])

\* speed_moment came to its division by norm: the loop stored a moment for
\* every radius.
DividedByNorm ==
    Done("speed_moment") /\ call.norm # NoNorm /\ k = Size(call.radius)

Unconverged ==
    {i \in 1..Len(integrations) :
        integrations[i].done /\ ~integrations[i].converged}

\* C10, as the specification states it: when the integration for some
\* radius has not met its tolerance at the maximum depth, speed_moment
\* raises instead of storing the value and returning normally.
C10_UnconvergedRaises ==
    (Done("speed_moment") /\ Unconverged # {}) => out.status = "raise"

\* C10, amended: an integration that has not met its tolerance at the
\* maximum depth issues an AccuracyWarning and nothing else; its estimate is
\* stored in the moment array as a converged one is, and speed_moment
\* returns normally (for a float radius array and no norm, always).
C10_UnconvergedStored ==
    call.fn = "speed_moment" =>
        /\ warnings = Cardinality(Unconverged)
        /\ \A i \in 1..k :
            /\ integrations[i].done
            /\ moment.v[i] = Store(moment.dtype, integrations[i].result)
        /\ (pc = "done" /\ out.status = "raise") => out.exc = "ValueError"
        /\ (pc = "done" /\ call.radius.dtype = "float" /\ call.norm = NoNorm)
               => out.status = "return"

\* speed_moment returned normally the estimate of an integration that had
\* run out of refinements.
C10_Witness ==
    /\ ReturnedFrom("speed_moment")
    /\ call.norm = NoNorm
    /\ call.has_divmax
    /\ call.divmax = MaxDivmax
    /\ Size(call.radius) = 1
    /\ Unconverged = {1}
    /\ warnings = 1
    /\ ~IsNaN(integrations[1].result)
    /\ integrations[1].result # R(0)
    /\ out.val.v[1] = integrations[1].result


\* The node count antideriv_df uses in the recorded call.
NodeCount == IF call.has_n_quad THEN call.n_quad ELSE NQuadDefault

\* The potential psi_i(x) = (E_i * (x + 1) - E_min * (x - 1)) / 2 that the
\* node x maps the i-th energy of the recorded call to.
MappedPotential(i, x) ==
    FDiv(FSub(FMul(call.energy.v[i], FAdd(x, R(1))),
              FMul(call.energy_min, FSub(x, R(1)))),
         R(2))

\* Some node maps the i-th energy outside the range the spline was fitted on.
MappedOutside(i) ==
    \E j \in 1..NodeCount :
        Outside(MappedPotential(i, roots_jacobi(NodeCount, Rat(-1, 2), R(0)).x[j]),
                call.tck)

\* The continuation of the end piece of the spline S beyond its range.
Extrapolated(S, x) ==
    IF FLt(x, S.t[1])
    THEN FAdd(S.c[1],
              FMul(FDiv(FSub(S.c[2], S.c[1]), FSub(S.t[2], S.t[1])),
                   FSub(x, S.t[1])))
    ELSE FAdd(S.c[Len(S.c)],
              FMul(FDiv(FSub(S.c[Len(S.c)], S.c[Len(S.c) - 1]),
                        FSub(S.t[Len(S.t)], S.t[Len(S.t) - 1])),
                   FSub(x, S.t[Len(S.t)])))

\* The sum over the first j nodes of w_j * S(psi_i(x_j)), where S is
\* continued beyond its range by Extrapolated.
RECURSIVE ExtrapolatedSum(_, _, _)
ExtrapolatedSum(i, rule, j) ==
    IF j = 0 THEN R(0)
    ELSE FAdd(ExtrapolatedSum(i, rule, j - 1),
              FMul(rule.w[j],
                   IF Outside(MappedPotential(i, rule.x[j]), call.tck)
                   THEN Extrapolated(call.tck, MappedPotential(i, rule.x[j]))
                   ELSE SplevAt(MappedPotential(i, rule.x[j]), call.tck, 0, 0)))

EndSlope(S, x) ==
    IF FLt(x, S.t[1])
    THEN FDiv(FSub(S.c[2], S.c[1]), FSub(S.t[2], S.t[1]))
    ELSE FDiv(FSub(S.c[Len(S.c)], S.c[Len(S.c) - 1]),
              FSub(S.t[Len(S.t)], S.t[Len(S.t) - 1]))

\* C12, as the specification states it: df raises InterpolationRangeError
\* for an energy outside the range the antiderivative spline was fitted on.
C12_OutsideRaises ==
    (Done("df") /\ \E i \in 1..Size(call.energy) : Outside(call.energy.v[i], call.tck)) =>
        /\ out.status = "raise"
        /\ out.exc = "InterpolationRangeError"

\* C12: df takes no extrapolation argument and evaluates the spline with
\* the default ext = 0: it always returns, and for an energy above the
\* cutoff and outside the fitted range its value is the derivative of the
\* end piece of the spline continued beyond the range.
C12_OutsideExtrapolated ==
    Done("df") =>
        /\ out.status = "return"
        /\ \A i \in 1..Size(call.energy) :
            (Outside(call.energy.v[i], call.tck)
             /\ FGt(call.energy.v[i], call.energy_min)) =>
                out.val.v[i] = EndSlope(call.tck, call.energy.v[i])

\* df returned a non-zero value for an energy above the cutoff and beyond the
\* upper end of the fitted range.
C12_Witness ==
    /\ ReturnedFrom("df")
    /\ \E i \in 1..Size(call.energy) :
        /\ FGt(call.energy.v[i], call.tck.t[Len(call.tck.t)])
        /\ FGt(call.energy.v[i], call.energy_min)
        /\ ~IsNaN(out.val.v[i])
        /\ out.val.v[i] # R(0)


\* C13, as the specification states it: antideriv_df with n < 1 raises
\* QuadratureError.
C13_QuadratureError ==
    (Done("antideriv_df") /\ NodeCount < 1) =>
        /\ out.status = "raise"
        /\ out.exc = "QuadratureError"

\* C13: antideriv_df with n < 1 returns no value, in particular not the
\* empty quadrature sum: roots_jacobi raises ValueError, the except branch
\* calls it again, and the ValueError of that second call reaches the caller
\* before any term is summed.
C13_InvalidNodeCountRaises ==
    (Done("antideriv_df") /\ NodeCount < 1) =>
        /\ out.status = "raise"
        /\ out.exc = "ValueError"
        /\ Size(out.val) = 0
        /\ trace.fetches = 2
        /\ trace.terms = 0

\* antideriv_df was called with n = 0 on two float energies and raised.
C13_Witness ==
    /\ Done("antideriv_df")
    /\ call.has_n_quad
    /\ call.n_quad = 0
    /\ call.energy.dtype = "float"
    /\ Size(call.energy) = 2
    /\ out.status = "raise"


\* The i-th potential density_from_potential fits on in the recorded call:
\* psi at the radii exp(linspace(xi_min, xi_max, N)), taken in reverse.
SampledPotential(i) ==
    relative_potential(call.model,
                       exp(linspace(call.xi_min, call.xi_max, call.n_pts)
                               .v[call.n_pts + 1 - i]))

\* The reversed potentials decrease somewhere / never decrease but are
\* equal somewhere.
SamplesDecrease ==
    \E i \in 1..(call.n_pts - 1) : FGt(SampledPotential(i), SampledPotential(i + 1))
SamplesRepeat ==
    /\ ~SamplesDecrease
    /\ \E i \in 1..(call.n_pts - 1) : SampledPotential(i) = SampledPotential(i + 1)

\* C14, as the specification states it: density_from_potential raises
\* DomainError and returns no spline when the reversed potentials are not
\* strictly increasing, for instance when two radii have equal potential.
C14_NotMonotonicRaises ==
    (/\ Done("density_from_potential")
     /\ call.n_pts > call.k
     /\ SamplesDecrease \/ SamplesRepeat) =>
        /\ out.status = "raise"
        /\ out.exc = "DomainError"
        /\ trace.rho_spline = NoTck
        /\ trace.drho_dpsi_spline = NoTck

\* C14: density_from_potential tests nothing itself.  With enough points
\* for the order, reversed potentials that decrease somewhere make splrep
\* raise ValueError and no spline is returned; potentials that never
\* decrease but are equal at two radii are accepted: the call returns them
\* with two splines that have them as abscissas.
C14_OnlyDecreaseRaises ==
    (Done("density_from_potential") /\ call.n_pts > call.k) =>
        /\ SamplesDecrease =>
            /\ out.status = "raise"
            /\ out.exc = "ValueError"
            /\ trace.rho_spline = NoTck
            /\ trace.drho_dpsi_spline = NoTck
        /\ SamplesRepeat =>
            /\ out.status = "return"
            /\ \A i \in 1..call.n_pts : out.val.v[i] = SampledPotential(i)
            /\ trace.rho_spline.t = out.val.v
            /\ trace.drho_dpsi_spline.t = out.val.v

\* density_from_potential returned splines for "plateau" sampled at radii
\* 1, 2, 4 and 8, of which the first two have the potential 1/3.
C14_Witness ==
    /\ ReturnedFrom("density_from_potential")
    /\ call.model = "plateau"
    /\ call.n_pts = 4
    /\ FLt(call.xi_min, call.xi_max)
    /\ SamplesRepeat
    /\ out.val.v[3] = out.val.v[4]
    /\ trace.rho_spline # NoTck

Plotters == {"density_from_potential", "antideriv_df_from_energy", "speed_moment"}

Single(x) == Arr("1d", "float", <<x>>)

DepthLimit == IF call.has_divmax THEN call.divmax ELSE SpeedMomentDivmaxDefault

\* The i-th integration has ended at the limit without converging.
EndedUnconverged(i) == integrations[i].done /\ ~integrations[i].converged

\* C18, as the specification states it, for a call that has ended: it
\* started exactly len(radius) integrations, and an integration that ended
\* at the caller's maximum depth without converging made the call fail.
C18_LimitFails ==
    Done("speed_moment") =>
        /\ Len(integrations) = Size(call.radius)
        /\ (\E i \in 1..Len(integrations) : EndedUnconverged(i)) =>
               out.status = "raise"

\* C18: every call of speed_moment terminates.  It starts one integration
\* per radius in turn, never more than len(radius) and exactly len(radius)
\* when the loop completes; an integration never refines beyond the
\* caller's maximum depth (20 when omitted); and one that ends at that limit
\* without converging returns its latest estimate with a warning, after
\* which the loop goes on.
C18_Terminates ==
    /\ Running ~> (pc = "done")
    /\ [](Running =>
            \/ pc = "loop" /\ k <= Size(call.radius)
            \/ pc = "romberg" /\ Len(integrations) = k + 1)
    /\ [](call.fn = "speed_moment" =>
            /\ Len(integrations) <= Size(call.radius)
            /\ k = Size(call.radius) => Len(integrations) = Size(call.radius)
            /\ pc = "romberg" =>
                /\ Current.divmax = DepthLimit
                /\ depth <= DepthLimit
            /\ \A i \in 1..k :
                /\ integrations[i].done
                /\ moment.v[i] = Store(moment.dtype, integrations[i].result)
            /\ warnings = Cardinality({i \in 1..Len(integrations) : EndedUnconverged(i)}))

\* speed_moment returned two moments after two integrations of which the
\* first ended at the limit of one refinement without converging.
C18_Witness ==
    /\ ReturnedFrom("speed_moment")
    /\ call.has_divmax
    /\ call.divmax = 1
    /\ Len(integrations) = 2
    /\ EndedUnconverged(1)
    /\ integrations[2].converged
    /\ warnings = 1
    /\ Size(out.val) = 2


\* C19, as the specification states it: for each of the five models the
\* flag has_analytic_df, read as the plotter of antideriv_df_from_energy
\* reads it, is true exactly when the model defines both antideriv_df and
\* df, and the plotter branching on it never meets a missing method
\* (stated where the lines before the plot have returned).
C19_FlagMeansMethods ==
    (/\ Done("antideriv_df_from_energy")
     /\ call.model \in RepoModels
     /\ call.make_plots
     /\ trace.res.status = "return") =>
        /\ has_analytic_df(call.model) <=>
               {"antideriv_df", "df"} \subseteq Provides(call.model)
        /\ out.exc # "AttributeError"


\* The offset of the recorded call of a model method.
OffsetOfCall == IF call.has_offset THEN call.offset ELSE OffsetDefault(call.model)

\* C20, as the specification states it: a model method that takes an
\* offset evaluates every radius with |r| < offset by the Taylor
\* approximation and every other radius by the closed form, and at r = 0
\* the approximation returns a finite value.
C20_TaylorNearOrigin ==
    Done("offset_method") =>
        /\ trace.branch = IF FLt(FAbs(call.r), OffsetOfCall) THEN "taylor" ELSE "closed"
        /\ (call.r = R(0) /\ FLt(R(0), OffsetOfCall)) =>
            /\ out.status = "return"
            /\ ~IsNaN(out.val.v[1])



\* lo <= x <= hi.
Between(lo, x, hi) == FLe(lo, x) /\ FLe(x, hi)

\* Points of [-1, 1]: the two ends and some points between them.
UnitInterval == {R(-1), Rat(-1, 2), R(0), Rat(1, 3), R(1)}

\* C24: for every energy E >= E_min of a call of antideriv_df, the
\* substitution maps -1 to E_min, 1 to E and every point of [-1, 1] into
\* [E_min, E]; the nodes of the rule lie in [-1, 1], so the potentials at
\* which g evaluates the spline lie between E_min and E.
C24_NodesWithinRange ==
    Done("antideriv_df") =>
        \A i \in 1..Size(call.energy) :
            FLe(call.energy_min, call.energy.v[i]) =>
                /\ potential(R(-1), call.energy, call.energy_min).v[i] = call.energy_min
                /\ potential(R(1), call.energy, call.energy_min).v[i] = call.energy.v[i]
                /\ \A x \in UnitInterval :
                    Between(call.energy_min,
                            potential(x, call.energy, call.energy_min).v[i],
                            call.energy.v[i])
                /\ \A j \in 1..NodeCount :
                    /\ Between(R(-1), roots_jacobi(NodeCount, Rat(-1, 2), R(0)).x[j], R(1))
                    /\ Between(call.energy_min,
                               potential(roots_jacobi(NodeCount, Rat(-1, 2), R(0)).x[j],
                                         call.energy, call.energy_min).v[i],
                               call.energy.v[i])

\* antideriv_df returned for the energy 4 above the cutoff 1, with two
\* nodes, which the substitution maps strictly between 1 and 4.
C24_Witness ==
    /\ ReturnedFrom("antideriv_df")
    /\ NodeCount = 2
    /\ call.energy_min = R(1)
    /\ Size(call.energy) >= 1
    /\ call.energy.v[1] = R(4)
    /\ \A j \in 1..2 :
        /\ FLt(R(1), potential(roots_jacobi(2, Rat(-1, 2), R(0)).x[j],
                               call.energy, call.energy_min).v[1])
        /\ FLt(potential(roots_jacobi(2, Rat(-1, 2), R(0)).x[j],
                         call.energy, call.energy_min).v[1], R(4))



\* Speeds tried against the escape speed, and with them the upper limit
\* speed_moment computed for the i-th radius, when it is a number.
SpeedValues == {R(0), Rat(1, 2), Rat(7, 10), R(1), R(2)}
SpeedsAt(i) == SpeedValues \cup {v \in {v_max[i]} : ~IsNaN(v)}

\* v_max(r)^2 = 2 (psi(r) - E_min), for the i-th radius of the call.
EscapeSquare(i) ==
    FMul(R(2), FSub(relative_potential(call.model, call.radius.v[i]), call.energy_min))

\* C25: for every radius r of a finished call of speed_moment with
\* psi(r) >= E_min and every speed v >= 0: if v <= v_max(r), that is
\* v^2 <= 2 (psi(r) - E_min), then E(r, v) lies in [E_min, psi(r)]; if
\* v = v_max(r) then E(r, v) = E_min; if v > v_max(r) then E(r, v) < E_min
\* and the integrand is 0.
C25_EnergyWithinRange ==
    Done("speed_moment") =>
        \A i \in 1..Size(call.radius) :
            FLe(call.energy_min, relative_potential(call.model, call.radius.v[i])) =>
                \A v \in SpeedsAt(i) :
                    /\ FLe(FMul(v, v), EscapeSquare(i)) =>
                        Between(call.energy_min,
                                relative_energy(call.radius.v[i], v, call.model),
                                relative_potential(call.model, call.radius.v[i]))
                    /\ FMul(v, v) = EscapeSquare(i) =>
                        relative_energy(call.radius.v[i], v, call.model) = call.energy_min
                    /\ FGt(FMul(v, v), EscapeSquare(i)) =>
                        /\ FLt(relative_energy(call.radius.v[i], v, call.model),
                               call.energy_min)
                        /\ integrand(v, call.radius.v[i], call.nth, call.energy_min,
                                     call.tck, call.model) = R(0)

\* speed_moment was called for a radius whose escape speed is 1: the upper
\* limit computed is 1, the energy there is E_min, the energy at the speed
\* 1/2 lies strictly between E_min and psi(r) with a non-zero integrand,
\* and the integrand at the speed 2 is 0.
C25_Witness ==
    /\ Done("speed_moment")
    /\ Size(call.radius) >= 1
    /\ EscapeSquare(1) = R(1)
    /\ v_max[1] = R(1)
    /\ relative_energy(call.radius.v[1], v_max[1], call.model) = call.energy_min
    /\ FLt(call.energy_min, relative_energy(call.radius.v[1], Rat(1, 2), call.model))
    /\ integrand(Rat(1, 2), call.radius.v[1], call.nth, call.energy_min,
                 call.tck, call.model) # R(0)
    /\ integrand(R(2), call.radius.v[1], call.nth, call.energy_min,
                 call.tck, call.model) = R(0)



\* C26: when a call of df, antideriv_df, antideriv_df_from_energy,
\* density_from_potential or speed_moment has ended, by a return or by an
\* error, every object the caller held before the call (the arrays and
\* splines passed, and what else it held) has the value it had, and every
\* object returned was made during the call and holds the value returned.
C26_InputsUnchanged ==
    pc = "done" =>
        /\ Len(trace.after) >= Len(trace.before)
        /\ \A id \in 1..Len(trace.before) : trace.after[id] = trace.before[id]
        /\ out.status = "return" =>
            /\ trace.ret # <<>>
            /\ \A i \in 1..Len(trace.ret) :
                /\ trace.ret[i] > Len(trace.before)
                /\ trace.ret[i] <= Len(trace.after)
            /\ trace.after[trace.ret[1]] = out.val
        /\ out.status = "raise" => trace.ret = <<>>

\* antideriv_df and speed_moment returned after having written in place:
\* the array returned is not all zeros, and the array passed is as before.
C26_Witness ==
    /\ pc = "done"
    /\ call.fn \in {"antideriv_df", "speed_moment"}
    /\ out.status = "return"
    /\ Size(out.val) = 2
    /\ trace.args[1] = 1
    /\ trace.before[1].dtype = "float"
    /\ trace.after[1] = trace.before[1]
    /\ ~IsNaN(out.val.v[1])
    /\ out.val.v[1] # R(0)
    /\ trace.after[Len(trace.before) + 1] # ZerosLike(trace.before[1])



\* The potential at the i-th radius of the call is below E_min.
BelowCutoff(i) ==
    FLt(relative_potential(call.model, call.radius.v[i]), call.energy_min)

\* C27, as the specification states it: a call of speed_moment with a
\* radius whose potential is below E_min ends with an error.
C27_BelowCutoffRaises ==
    (Done("speed_moment") /\ \E i \in 1..Size(call.radius) : BelowCutoff(i)) =>
        out.status = "raise"

\* C27: speed_moment does not test psi(r) against E_min.  For a radius
\* below the cutoff the upper limit is NaN, the integration does not
\* converge and its result is NaN.  With a floating-point radius array
\* (and a norm, if any, that broadcasts) the call returns normally and the
\* entries of such radii are NaN; with an integer radius array storing the
\* first NaN raises ValueError.
C27_BelowCutoffIsNaN ==
    Done("speed_moment") =>
        /\ \A i \in 1..Len(integrations) :
            BelowCutoff(i) =>
                /\ IsNaN(v_max[i])
                /\ IsNaN(integrations[i].b)
                /\ IsNaN(integrations[i].result)
                /\ ~integrations[i].converged
        /\ (/\ call.radius.dtype = "float"
            /\ call.norm # NoNorm => Broadcastable(call.radius, call.norm)) =>
            /\ out.status = "return"
            /\ \A j \in 1..Size(out.val) :
                BelowCutoff(IF Size(call.radius) = 1 THEN 1 ELSE j) =>
                    IsNaN(out.val.v[j])
        /\ (/\ call.radius.dtype = "int"
            /\ \E i \in 1..Size(call.radius) : BelowCutoff(i)) =>
            /\ out = Raised("ValueError")
            /\ BelowCutoff(Len(integrations))
            /\ \A i \in 1..(Len(integrations) - 1) : ~BelowCutoff(i)

\* speed_moment returned normally for the radii 1 and 3 with E_min = 1/2,
\* above the potential at 3: the second moment is NaN, the first is not,
\* and the only sign is a warning.
C27_Witness ==
    /\ ReturnedFrom("speed_moment")
    /\ Size(call.radius) = 2
    /\ ~BelowCutoff(1)
    /\ BelowCutoff(2)
    /\ Size(out.val) = 2
    /\ ~IsNaN(out.val.v[1])
    /\ IsNaN(out.val.v[2])
    /\ warnings >= 1



(***************************************************************************)
(* phasespace: the module that defines relative_energy and speed_moment a  *)
(* second time.  A call of its speed_moment is given as one value: what    *)
(* it returns or raises for the arguments c, the integrator returning the  *)
(* estimate it has when it stops.                                          *)
(***************************************************************************)
PhasespaceDivmaxDefault == 20

\* A relative energy that leaves the potential out.
PhasespaceKineticOnly(radius, speed, model) ==
    FNeg(FMul(FMul(Rat(1, 2), speed), speed))

\* phasespace.relative_energy(radius, speed, model).
phasespace_relative_energy(radius, speed, model) ==
    FSub(relative_potential(model, radius), FMul(FMul(Rat(1, 2), speed), speed))

\* integrand(v, r) of phasespace.speed_moment.
phasespace_integrand(v, r, nth, energy_min, drho_dpsi_spline, model) ==
    FMul(FMul(FMul(R(4), Pi), FPow(v, 2 + nth)),
         df(Scalar(phasespace_relative_energy(r, v, model)), energy_min,
            drho_dpsi_spline).v[1])

\* v_max of phasespace.speed_moment.
phasespace_v_max(radius, energy_min, model) ==
    AsTuple([i \in 1..Size(radius) |->
        FSqrt(FMul(R(2), FSub(relative_potential(model, radius.v[i]), energy_min)))])

\* integrate.romberg(integrand, 0., v_max[k], args=(r, ), divmax=divmax):
\* the arguments of the call for the n-th radius.
phasespace_romberg(c, vmax, n) ==
    romberg(R(0), vmax[n], c.radius.v[n], TRUE,
            IF c.has_divmax THEN c.divmax ELSE PhasespaceDivmaxDefault)

\* The estimate the integrator returns for the call q: the trapezoid
\* estimate when it may not refine, the refined one otherwise.
PhasespaceEstimate(q, c) ==
    RombergEstimate(
        AsTuple([j \in 1..3 |->
            phasespace_integrand(<<q.a, FMul(Rat(1, 2), FAdd(q.a, q.b)), q.b>>[j],
                                 q.r, c.nth, c.energy_min, c.tck, c.model)]),
        q.a, q.b, IF q.divmax = 0 THEN 0 ELSE 1)

\* if norm is not None: moment = moment / norm; return moment.
PhasespaceAfterLoop(mom, norm) ==
    IF norm = NoNorm THEN Returned(mom)
    ELSE IF Broadcastable(mom, norm) THEN Returned(Divide(mom, norm))
    ELSE Raised("ValueError")

\* The loop of phasespace.speed_moment from the n-th radius on, and the
\* assignment moment[k] = value in it.
RECURSIVE PhasespaceLoop(_, _, _, _)
PhasespaceStore(mom, value, vmax, c, n) ==
    IF StoreError(mom.dtype, value) # "none"
    THEN Raised(StoreError(mom.dtype, value))
    ELSE PhasespaceLoop([mom EXCEPT !.v[n] = Store(mom.dtype, value)],
                        vmax, c, n + 1)

PhasespaceLoop(mom, vmax, c, n) ==
    IF n > Size(c.radius) THEN PhasespaceAfterLoop(mom, c.norm)
    ELSE PhasespaceStore(mom,
                         PhasespaceEstimate(phasespace_romberg(c, vmax, n), c),
                         vmax, c, n)

\* phasespace.speed_moment with make_plots false.
phasespace_speed_moment(c) ==
    PhasespaceLoop(ZerosLike(c.radius),
                   phasespace_v_max(c.radius, c.energy_min, c.model), c, 1)

\* C28: for the arguments of every finished call of
\* functions_of_phase_space.speed_moment (make_plots false),
\* phasespace.speed_moment returns the same array or raises the same
\* error, and for every radius of the call and every speed the two
\* relative_energy functions return the same value.
C28_ModulesAgree ==
    Done("speed_moment") =>
        /\ ~call.make_plots
        /\ out = phasespace_speed_moment(call)
        /\ \A i \in 1..Size(call.radius) : \A v \in SpeedValues :
            phasespace_relative_energy(call.radius.v[i], v, call.model)
                = relative_energy(call.radius.v[i], v, call.model)

\* Both modules returned the same two moments, the first of them not 0,
\* and the energies of the two modules at speed 1 are psi(r) - 1/2.
C28_Witness ==
    /\ ReturnedFrom("speed_moment")
    /\ Size(call.radius) = 2
    /\ out = phasespace_speed_moment(call)
    /\ Size(out.val) = 2
    /\ ~IsNaN(out.val.v[1])
    /\ out.val.v[1] # R(0)
    /\ phasespace_relative_energy(call.radius.v[1], R(1), call.model)
        = FSub(relative_potential(call.model, call.radius.v[1]), Rat(1, 2))



\* The values the integrator returned, in the order of the calls.
IntegratorResults ==
    Arr("1d", "float", AsTuple([i \in 1..Len(integrations) |->
                                    integrations[i].result]))

\* C29: whatever the element type of the radius array, a call of
\* speed_moment integrates every radius and returns the values the
\* integrator returned, divided by norm when a norm is given: storing a
\* value neither changes it nor fails.
C29_StoredUnchanged ==
    (/\ Done("speed_moment")
     /\ call.norm # NoNorm => Broadcastable(call.radius, call.norm)) =>
        /\ Len(integrations) = Size(call.radius)
        /\ out.status = "return"
        /\ out.val.v = Normalised(IntegratorResults, call.norm).val.v

\* The same statement for floating-point radius arrays only.
C29_FloatStoredUnchanged ==
    (Done("speed_moment") /\ call.radius.dtype = "float") => C29_StoredUnchanged



\* C30: a call of antideriv_df either fetches the nodes and weights once
\* and uses that pair (it then returns the sum of n terms, or fails later
\* on), or its first fetch raises, the except branch fetches again, and the
\* error of that second fetch reaches the caller before any term is
\* summed.  No call returns normally after two fetches.
C30_FallbackNeverProducesRule ==
    Done("antideriv_df") =>
        /\ \/ /\ trace.fetches = 1
              /\ FirstFetchError(NodeCount) = "none"
           \/ /\ trace.fetches = 2
              /\ FirstFetchError(NodeCount) # "none"
              /\ out = Raised(RetryError(NodeCount))
              /\ out.status = "raise"
              /\ trace.terms = 0
        /\ out.status = "return" =>
            /\ trace.fetches = 1
            /\ trace.terms = NodeCount

\* antideriv_df was called with n = 0 on one float energy: both fetches
\* raised and the caller got the ValueError of the second.
C30_Witness ==
    /\ Done("antideriv_df")
    /\ call.has_n_quad
    /\ call.n_quad = 0
    /\ call.energy.dtype = "float"
    /\ Size(call.energy) = 1
    /\ trace.fetches = 2
    /\ out = Raised("ValueError")

====
